---------------------------- MODULE Spec2Model ----------------------------
(***************************************************************************)
(* RideKeeper: the outreach orchestrator (offer dispatch, inbound SMS      *)
(* handling, ride booking and the ride status machine), modelled from the  *)
(* backend sources.                                                        *)
(*                                                                         *)
(* Every request handler, sweep and timer callback is split at its await   *)
(* points: one action per stretch of code that runs between two awaits.    *)
(* Two request slots (Procs) run handlers concurrently, the way the Node   *)
(* event loop interleaves them.                                            *)
(***************************************************************************)
EXTENDS Integers, Sequences, FiniteSets, TLC

VARIABLES
    cfg,        \* environment: "test" (TWILIO_TEST_MODE=true) | "live" (Twilio credentials set)
    serial,     \* TRUE: requests are issued one after the other (no overlap)
    patient,    \* per appointment: the patient's contact data
    clock,      \* index into TimePoints: the current instant
    appt,       \* Appointment rows: status, rideOfferSent, needsRide, riskScore
    ride,       \* Ride rows, one per appointment at most (NoRide when absent)
    mock,       \* mockRides, the provider's in-memory store (sequence, index = ride id)
    msgs,       \* SMSMessage rows in creation order
    timers,     \* pending setTimeout callbacks of the offer-ride demo path
    pc,         \* per request slot: position inside the running handler
    loc,        \* per request slot: the handler's local variables
    out,        \* what the last step emitted: socket events, console lines, HTTP replies
    offerOk,    \* history: appointments for which sendRideOffer returned success
    opsLeft,    \* requests, sweep runs and webhook deliveries still to be issued
    seen,       \* history: per appointment, what the status sweep last read from the provider
    risk,       \* the last call of a stateless service: its inputs and what it returned
    ai,         \* AIRiskScoreService: its switches, the AIRiskCache rows, the AI fields of
                \* the appointments and the position of the running assessment
    hist,       \* NoShowHistory: per appointment, the number of its rows
    reported    \* history: message SIDs the transport has reported failed or undelivered

vars == <<cfg, serial, patient, clock, appt, ride, mock, msgs, timers, pc, loc,
          out, offerOk, opsLeft, seen, risk, ai, hist, reported>>

---------------------------------------------------------------------------
(* Bounds of the model *)

MaxOps == 2

Procs == {"p1", "p2"}
Appts == {"a1", "a2"}

(* Program constants *)

PickupOffsetMin == 45
OfferWindowFromH == 24
OfferWindowToH == 25
HighRiskMin == 61
DriverAssignedWithinMin == 60
EnRouteWithinMin == 15
ArrivedWithinMin == 5
CompletedAfterMin == 30

\* Representative instants, as minutes from now until the appointment:
\* 24h10m out, then pickup (= appointment - 45 min) in 135, 55, 3, -5 and
\* -35 minutes.
TimePoints == <<1450, 180, 100, 48, 40, 10>>

MinutesToAppointment == TimePoints[clock]

---------------------------------------------------------------------------
(* Data *)

AppointmentStatus == {"SCHEDULED", "CONFIRMED", "COMPLETED", "NO_SHOW", "CANCELLED"}
RideStatus == {"SCHEDULED", "DRIVER_ASSIGNED", "IN_PROGRESS", "COMPLETED", "CANCELLED"}

NoPhone == "none"
NoRide == [status |-> "NONE", uber |-> -1]
DemoUberId == 0      \* DEMO_UBER_<ts>: an id the provider never issued

NoPatient == [exists |-> FALSE, phone |-> NoPhone, caseworker |-> NoPhone]

Patient(phone, caseworker) == [exists |-> TRUE, phone |-> phone, caseworker |-> caseworker]

\* One appointment in the database: its patient has an own phone, only a
\* caseworker, or no contact at all.
ScenariosOne ==
    { [a \in Appts |-> IF a = "a1" THEN pt ELSE NoPatient] :
        pt \in {Patient("p1", NoPhone), Patient(NoPhone, "cw"), Patient(NoPhone, NoPhone)} }

\* Two appointments: a caseworker serving both patients, or a patient with an
\* own phone next to a patient with no contact at all.
ScenariosTwo ==
    { [a \in Appts |-> Patient(NoPhone, "cw")],
      [a \in Appts |-> IF a = "a1" THEN Patient("p1", NoPhone) ELSE Patient(NoPhone, NoPhone)] }

Existing == {a \in Appts : patient[a].exists}

Bodies == {"YES", "NO"}
Senders == {"p1", "cw"}

Idle == [op |-> "none", a |-> "a1", phone |-> NoPhone, saw |-> "NONE", uber |-> -1,
         msg |-> 0, ok |-> FALSE, ret |-> "idle", mkind |-> "none", arg |-> "none",
         todo |-> <<>>, pre |-> {}, score |-> -1]

\* history: the provider has not assessed the appointment since its cache
\* entry was last invalidated
NotAssessed == [aiScore |-> -1, confidence |-> -1, at |-> 0]

\* AIRiskCache and the AI fields of an appointment, when there is none
NoEntry == [aiScore |-> -1, confidence |-> -1, expiresAt |-> -1]
NoFields == [aiRiskScore |-> -1, aiConfidence |-> -1]
NoResult == [score |-> -1, category |-> "NONE", finalScore |-> -1,
             isAIEnhanced |-> FALSE, aiAvailable |-> FALSE]
NoRun == [a |-> "a1", base |-> [score |-> -1, category |-> "NONE"], got |-> NoEntry,
          cache0 |-> [a \in Appts |-> NoEntry], fields0 |-> [a \in Appts |-> NoFields],
          ret |-> NoResult]

\* AI_RISK_SCORING_ENABLED unset, no API key: nothing cached, nothing running
AIOff == [enabled |-> FALSE, configured |-> FALSE,
          cache |-> [a \in Appts |-> NoEntry], fields |-> [a \in Appts |-> NoFields],
          pc |-> "idle", run |-> NoRun, assessed |-> [a \in Appts |-> NotAssessed]]

\* aiRiskCache.delete({ where: { appointmentId } })
InvalidateCache(a) == [ai EXCEPT !.cache[a] = NoEntry, !.assessed[a] = NotAssessed]

\* no risk computation has run yet
NoCalc == [op |-> "none"]

\* history: no status sweep has read the appointment's ride yet
NotRead == [status |-> "none", ops |-> -1, again |-> FALSE]

\* POST /api/rides/book has already run for these appointments
Prebooked == {{}, {"a1"}}

\* The database when the first request arrives: appointments SCHEDULED with no
\* offer sent; an appointment booked earlier is CONFIRMED, with its ride
\* SCHEDULED, its booking in the provider's store and its confirmation message.
Start(scenarios, oneAtATime) ==
    \E B \in Prebooked :
        /\ cfg \in {"test", "live"}
        /\ serial = oneAtATime
        /\ patient \in scenarios
        /\ clock = 1
        /\ appt = [a \in Appts |-> [status |-> IF a \in B THEN "CONFIRMED" ELSE "SCHEDULED",
                                    rideOfferSent |-> FALSE, needsRide |-> TRUE, riskScore |-> 85]]
        /\ ride = [a \in Appts |-> IF a \in B THEN [status |-> "SCHEDULED", uber |-> 1] ELSE NoRide]
        /\ mock = IF B = {} THEN <<>> ELSE <<[status |-> "scheduled", a |-> "a1"]>>
        /\ msgs = IF B # {} /\ patient["a1"].phone = NoPhone /\ patient["a1"].caseworker = NoPhone
                  THEN <<>>
                  ELSE IF B # {}
                  THEN <<[a |-> "a1", dir |-> "OUTBOUND", status |-> "DELIVERED", kind |-> "confirm",
                          sid |-> 1, by |-> "book",
                          phone |-> IF patient["a1"].phone # NoPhone THEN patient["a1"].phone
                                    ELSE patient["a1"].caseworker]>>
                  ELSE <<>>
        /\ timers = {}
        /\ pc = [p \in Procs |-> "idle"]
        /\ loc = [p \in Procs |-> Idle]
        /\ out = {}
        /\ offerOk = {}
        /\ opsLeft = MaxOps
        /\ seen = [a \in Appts |-> NotRead]
        /\ risk = NoCalc
        /\ hist = [a \in Appts |-> 0]
        /\ reported = {}

\* overlapping requests on one appointment
Init == Start(ScenariosOne, FALSE) /\ ai = AIOff

\* requests issued one after the other, on two appointments
InitSeq == Start(ScenariosTwo, TRUE) /\ ai = AIOff

---------------------------------------------------------------------------
(* Environment flags *)

\* TwilioService.isTestMode
TwilioTestMode == cfg = "test"

\* offer-ride route: process.env.TWILIO_TEST_MODE === 'true'
RouteTestMode == cfg = "test"

\* patient.phoneNumber, else patient.caseWorkers[0].phoneNumber, else nothing
TargetPhone(a) ==
    IF patient[a].phone # NoPhone THEN patient[a].phone ELSE patient[a].caseworker

\* A handler may start when a slot is free; when requests are issued one
\* after the other, only when nothing else is running.
TimerRunning == \E t \in timers : t.stage = "confirm"

Quiet == (\A q \in Procs : pc[q] = "idle") /\ ~TimerRunning /\ ai.pc = "idle"

\* A request takes a free slot; the slots are interchangeable.
CanStart(p) ==
    /\ pc[p] = "idle"
    /\ p = CHOOSE q \in Procs : pc[q] = "idle"
    /\ opsLeft > 0
    /\ serial => Quiet

Begin(p, l) == [loc EXCEPT ![p] = l]

Finish(p) == [loc EXCEPT ![p] = Idle]

Event(type, a) == [ch |-> "event", type |-> type, a |-> a]
Log(line, a) == [ch |-> "log", type |-> line, a |-> a]
Reply(code, a) == [ch |-> "reply", type |-> code, a |-> a]
Call(op, a) == [ch |-> "call", type |-> op, a |-> a]

Silent == out' = {}

\* Ride.appointmentId is unique (Appointment.ride is a one-to-one relation):
\* the database accepts a row only for an appointment that has none
RideRowAccepted(a) == ride[a] = NoRide

---------------------------------------------------------------------------
(* TwilioService.sendSMS, called by every sender.  The caller puts the     *)
(* target number, the appointment and the kind of message into its locals  *)
(* and names the label at which it continues.                              *)

CallSms(l, phone, kind, ret) ==
    [l EXCEPT !.phone = phone, !.mkind = kind, !.ret = ret, !.msg = 0, !.ok = FALSE]

OutboundRecord(a, phone, kind, by) ==
    [a |-> a, phone |-> phone, dir |-> "OUTBOUND", status |-> "SENT",
     kind |-> kind, sid |-> 0, by |-> by]

OfferKinds == {"offer", "offer_cw"}

\* history: sendRideOffer has returned success for the appointment
OfferReturned(p, success) ==
    IF success /\ loc[p].mkind \in OfferKinds THEN offerOk \cup {loc[p].a} ELSE offerOk

\* prisma.sMSMessage.create before anything is handed to the transport
SmsCreate(p) ==
    /\ pc[p] = "sms_create"
    /\ msgs' = Append(msgs, OutboundRecord(loc[p].a, loc[p].phone, loc[p].mkind, loc[p].op))
    /\ loc' = [loc EXCEPT ![p].msg = Len(msgs) + 1]
    /\ pc' = [pc EXCEPT ![p] = IF TwilioTestMode THEN "sms_test" ELSE "sms_call"]
    /\ Silent
    /\ UNCHANGED <<cfg, serial, patient, clock, appt, ride, mock, timers, offerOk, opsLeft, seen, risk, ai, hist, reported>>

\* test mode: no transport call, the record is marked DELIVERED with a fake SID
SmsTestUpdate(p) ==
    /\ pc[p] = "sms_test"
    /\ msgs' = [msgs EXCEPT ![loc[p].msg].status = "DELIVERED", ![loc[p].msg].sid = loc[p].msg]
    /\ loc' = [loc EXCEPT ![p].ok = TRUE]
    /\ pc' = [pc EXCEPT ![p] = loc[p].ret]
    /\ offerOk' = OfferReturned(p, TRUE)
    /\ Silent
    /\ UNCHANGED <<cfg, serial, patient, clock, appt, ride, mock, timers, opsLeft, seen, risk, ai, hist, reported>>

\* client.messages.create: the transport accepts the message or throws
SmsTransport(p) ==
    /\ pc[p] = "sms_call"
    /\ \E accepted \in BOOLEAN : loc' = [loc EXCEPT ![p].ok = accepted]
    /\ pc' = [pc EXCEPT ![p] = "sms_store"]
    /\ Silent
    /\ UNCHANGED <<cfg, serial, patient, clock, appt, ride, mock, msgs, timers, offerOk, opsLeft, seen, risk, ai, hist, reported>>

StatusAfterTransportAlwaysDelivered(accepted) == "DELIVERED"

StatusAfterTransport(accepted) == IF accepted THEN "DELIVERED" ELSE "FAILED"

\* the update after the transport call: SID and DELIVERED, or FAILED in the catch
SmsStore(p) ==
    /\ pc[p] = "sms_store"
    /\ msgs' = [msgs EXCEPT ![loc[p].msg].status = StatusAfterTransport(loc[p].ok),
                            ![loc[p].msg].sid = IF loc[p].ok THEN loc[p].msg ELSE 0]
    /\ pc' = [pc EXCEPT ![p] = loc[p].ret]
    /\ offerOk' = OfferReturned(p, loc[p].ok)
    /\ Silent
    /\ UNCHANGED <<cfg, serial, patient, clock, appt, ride, mock, timers, loc, opsLeft, seen, risk, ai, hist, reported>>

---------------------------------------------------------------------------
(* POST /api/appointments/:id/offer-ride *)

OfferKind(a) == IF patient[a].phone # NoPhone THEN "offer" ELSE "offer_cw"

\* findUnique, contact resolution, and the 400 NO_PHONE reply
StartOfferRide(p, a) ==
    /\ CanStart(p)
    /\ a \in Existing
    /\ opsLeft' = opsLeft - 1
    /\ IF TargetPhone(a) = NoPhone
       THEN /\ loc' = Finish(p)
            /\ pc' = pc
            /\ out' = {Call("offer_ride", a), Reply("NO_PHONE", a)}
       ELSE /\ loc' = Begin(p, CallSms([Idle EXCEPT !.op = "offer_ride", !.a = a],
                                       TargetPhone(a), OfferKind(a), "or_flag"))
            /\ pc' = [pc EXCEPT ![p] = "sms_create"]
            /\ out' = {Call("offer_ride", a)}
    /\ UNCHANGED <<cfg, serial, patient, clock, appt, ride, mock, msgs, timers, offerOk, seen, risk, ai, hist, reported>>

\* a pending setTimeout callback of the demo path
TimerAt(stage, a, phone) == [stage |-> stage, a |-> a, phone |-> phone]

MarkOfferSentAlways(sent, success) == TRUE

\* the new value of rideOfferSent once sendRideOffer has returned
MarkOfferSent(sent, success) == IF success THEN TRUE ELSE sent

\* after sendRideOffer: flag, cache invalidation, event, demo timer, response
OfferRideFlag(p) ==
    /\ pc[p] = "or_flag"
    /\ LET a == loc[p].a
           success == loc[p].ok
       IN /\ appt' = [appt EXCEPT ![a].rideOfferSent = MarkOfferSent(@, success)]
          /\ out' = IF success THEN {Event("RIDE_OFFER_SENT", a), Reply("OK", a)}
                               ELSE {Reply("SMS_FAILED", a)}
          /\ timers' = IF success /\ RouteTestMode
                       THEN timers \cup {TimerAt("reply", a, loc[p].phone)}
                       ELSE timers
          /\ ai' = IF success THEN InvalidateCache(a) ELSE ai
    /\ loc' = Finish(p)
    /\ pc' = [pc EXCEPT ![p] = "idle"]
    /\ UNCHANGED <<cfg, serial, patient, clock, ride, mock, msgs, offerOk, opsLeft, seen, risk, hist, reported>>

\* first timer (3 s): the simulated inbound YES
TimerReply(t) ==
    /\ t \in timers /\ t.stage = "reply"
    /\ serial => Quiet
    /\ msgs' = Append(msgs, [a |-> t.a, phone |-> t.phone, dir |-> "INBOUND",
                             status |-> "RECEIVED", kind |-> "YES", sid |-> 0, by |-> "timer"])
    /\ timers' = (timers \ {t}) \cup {[t EXCEPT !.stage = "book"]}
    /\ out' = {Event("SMS_RECEIVED", t.a)}
    /\ UNCHANGED <<cfg, serial, patient, clock, appt, ride, mock, pc, loc, offerOk, opsLeft, seen, risk, ai, hist, reported>>

\* second timer (2 s later): prisma.ride.create without a look at the
\* existing ride; a rejected create ends the callback in its catch
TimerAutoBook(t) ==
    /\ t \in timers /\ t.stage = "book"
    /\ serial => Quiet
    /\ IF RideRowAccepted(t.a)
       THEN /\ ride' = [ride EXCEPT ![t.a] = [status |-> "SCHEDULED", uber |-> DemoUberId]]
            /\ timers' = (timers \ {t}) \cup {[t EXCEPT !.stage = "confirm"]}
            /\ out' = {}
       ELSE /\ ride' = ride
            /\ timers' = timers \ {t}
            /\ out' = {Log("DEMO_AUTOBOOK_ERROR", t.a)}
    /\ UNCHANGED <<cfg, serial, patient, clock, appt, mock, msgs, pc, loc, offerOk, opsLeft, seen, risk, ai, hist, reported>>

\* appointment CONFIRMED, then the confirmation row written directly as DELIVERED
TimerConfirm(t) ==
    /\ t \in timers /\ t.stage = "confirm"
    /\ appt' = [appt EXCEPT ![t.a].status = "CONFIRMED"]
    /\ msgs' = Append(msgs, [a |-> t.a, phone |-> t.phone, dir |-> "OUTBOUND",
                             status |-> "DELIVERED", kind |-> "confirm", sid |-> 0, by |-> "timer"])
    /\ timers' = timers \ {t}
    /\ out' = {Event("RIDE_BOOKED", t.a), Event("APPOINTMENT_UPDATE", t.a)}
    /\ UNCHANGED <<cfg, serial, patient, clock, ride, mock, pc, loc, offerOk, opsLeft, seen, risk, ai, hist, reported>>

---------------------------------------------------------------------------
(* SchedulerService.sendRideOffers *)

MinutesPerHour == 60

InOfferWindow(a) ==
    /\ MinutesToAppointment >= OfferWindowFromH * MinutesPerHour
    /\ MinutesToAppointment <= OfferWindowToH * MinutesPerHour

OfferCandidateAnyRisk(a) ==
    /\ a \in Existing
    /\ InOfferWindow(a)
    /\ appt[a].status = "SCHEDULED"
    /\ appt[a].rideOfferSent = FALSE

\* the findMany filter of the sweep
OfferCandidate(a) ==
    /\ a \in Existing
    /\ InOfferWindow(a)
    /\ appt[a].status = "SCHEDULED"
    /\ appt[a].riskScore >= HighRiskMin
    /\ appt[a].rideOfferSent = FALSE

ApptOrder == <<"a1", "a2">>

\* the rows of a query, in table order
Rows(P(_)) == SelectSeq(ApptOrder, P)

SkipNothing(todo) == todo

RECURSIVE SkipNoContact(_)
\* the loop's `continue` for appointments without any number
SkipNoContact(todo) ==
    IF todo = <<>> THEN <<>>
    ELSE IF TargetPhone(Head(todo)) = NoPhone THEN SkipNoContact(Tail(todo))
    ELSE todo

Skipped(todo) ==
    LET rest == SkipNoContact(todo)
    IN {todo[i] : i \in 1..(Len(todo) - Len(rest))}

\* enter the loop body for the next appointment that has a number, or end
OfferLoop(p, todo, events) ==
    LET rest == SkipNoContact(todo)
    IN /\ out' = events \cup {Log("NO_PHONE", a) : a \in Skipped(todo)}
       /\ IF rest = <<>>
          THEN /\ loc' = Finish(p)
               /\ pc' = [pc EXCEPT ![p] = "idle"]
          ELSE /\ loc' = Begin(p, CallSms([Idle EXCEPT !.op = "send_offers", !.a = Head(rest),
                                                       !.todo = Tail(rest)],
                                          TargetPhone(Head(rest)), OfferKind(Head(rest)), "so_flag"))
               /\ pc' = [pc EXCEPT ![p] = "sms_create"]

StartSendRideOffers(p) ==
    /\ CanStart(p)
    /\ opsLeft' = opsLeft - 1
    /\ OfferLoop(p, Rows(OfferCandidate), {Call("send_offers", "all")})
    /\ UNCHANGED <<cfg, serial, patient, clock, appt, ride, mock, msgs, timers, offerOk, seen, risk, ai, hist, reported>>

SendRideOffersFlag(p) ==
    /\ pc[p] = "so_flag"
    /\ LET a == loc[p].a
           success == loc[p].ok
       IN /\ appt' = [appt EXCEPT ![a].rideOfferSent = MarkOfferSent(@, success)]
          /\ OfferLoop(p, loc[p].todo, IF success THEN {Event("RIDE_OFFER_SENT", a)} ELSE {})
    /\ UNCHANGED <<cfg, serial, patient, clock, ride, mock, msgs, timers, offerOk, opsLeft, seen, risk, ai, hist, reported>>

---------------------------------------------------------------------------
(* UberHealthService: the mock provider *)

InStore(id) == id \in 1..Len(mock)

\* bookRide: a new entry with status 'scheduled'
BookRide(a) == Append(mock, [status |-> "scheduled", a |-> a])

MinutesUntilPickup == MinutesToAppointment - PickupOffsetMin

PickupNow == 0

\* getRideStatus: the status is recomputed from the time left until pickup
StatusByTime(st) ==
    IF MinutesUntilPickup <= PickupNow
    THEN IF st # "completed" /\ st # "cancelled"
         THEN IF MinutesUntilPickup <= -CompletedAfterMin THEN "completed" ELSE "in_progress"
         ELSE st
    ELSE IF MinutesUntilPickup <= ArrivedWithinMin THEN "arrived"
    ELSE IF MinutesUntilPickup <= EnRouteWithinMin THEN "en_route"
    ELSE IF MinutesUntilPickup <= DriverAssignedWithinMin THEN "driver_assigned"
    ELSE st

\* cancelRide refuses a completed ride and a ride in progress
CancelRefused(st) == st = "completed" \/ st = "in_progress"

---------------------------------------------------------------------------
(* Booking: the SMS webhook's CONFIRM branch and POST /api/rides/book *)

Max(S) == CHOOSE x \in S : \A y \in S : y <= x
Min(S) == CHOOSE x \in S : \A y \in S : x <= y

\* SMSMessage.appointmentId is an association, not a required reference: the
\* table takes a row whose appointmentId is the empty string
InboundRowAccepted(appointmentId) == TRUE

LastOutboundToAnyone(from) ==
    LET idx == {i \in 1..Len(msgs) : msgs[i].dir = "OUTBOUND"}
    IN IF idx = {} THEN "none" ELSE msgs[Max(idx)].a

LastOutboundEarliest(from) ==
    LET idx == {i \in 1..Len(msgs) : msgs[i].phone = from /\ msgs[i].dir = "OUTBOUND"}
    IN IF idx = {} THEN "none" ELSE msgs[Min(idx)].a

\* handleIncomingSMS: the appointment of the latest outbound message to the number
LastOutbound(from) ==
    LET idx == {i \in 1..Len(msgs) : msgs[i].phone = from /\ msgs[i].dir = "OUTBOUND"}
    IN IF idx = {} THEN "none" ELSE msgs[Max(idx)].a

CleanedKeepCase(body) == body

\* toLowerCase, trim, punctuation removed
Cleaned(body) ==
    CASE body = "YES" -> "yes"
      [] body = "NO" -> "no"
      [] body = "Yes!" -> "yes"
      [] body = " ok " -> "ok"
      [] body = "Where is my ride?" -> "where is my ride"
      [] body = "Please reschedule." -> "please reschedule"
      [] OTHER -> body

ConfirmPatterns == {"yes", "yeah", "yep", "yup", "ok", "okay", "sure", "y"}
DeclinePatterns == {"no", "nope", "nah", "n", "cancel"}

\* ruleBasedParsing; these whole-word replies are settled by the rule tier
\* (confidence 0.95), so parsePatientResponse returns without an external call
ParsePatientResponse(body) ==
    IF Cleaned(body) \in ConfirmPatterns THEN "CONFIRM_RIDE"
    ELSE IF Cleaned(body) \in DeclinePatterns THEN "DECLINE_RIDE"
    ELSE "UNKNOWN"

\* history: the appointments that are SCHEDULED, were offered a ride on this
\* number and have no ride when the message arrives
AwaitingReply(from) ==
    {x \in Existing : /\ TargetPhone(x) = from
                      /\ appt[x].status = "SCHEDULED"
                      /\ appt[x].rideOfferSent
                      /\ ride[x] = NoRide}

StartWebhook(p, from, body) ==
    /\ CanStart(p)
    /\ opsLeft' = opsLeft - 1
    /\ LET a == LastOutbound(from)
           intent == ParsePatientResponse(body)
           l == [Idle EXCEPT !.op = "webhook", !.a = a, !.phone = from, !.saw = ride[a].status,
                             !.pre = IF body = "YES" THEN AwaitingReply(from) ELSE {}]
       IN /\ InboundRowAccepted(a)
          /\ msgs' = Append(msgs, [a |-> a, phone |-> from, dir |-> "INBOUND",
                                   status |-> "RECEIVED", kind |-> body, sid |-> 0, by |-> "webhook"])
          /\ IF a = "none"
             THEN /\ loc' = Finish(p)
                  /\ pc' = pc
                  /\ out' = {Call("webhook", from), Reply("TWIML", a), Log("NO_APPOINTMENT", a)}
             ELSE /\ out' = {Call("webhook", from), Event("SMS_RECEIVED", a)}
                  /\ IF intent = "CONFIRM_RIDE" /\ ride[a] = NoRide
                     THEN /\ loc' = Begin(p, l)
                          /\ pc' = [pc EXCEPT ![p] = "book"]
                     ELSE IF intent = "DECLINE_RIDE"
                     THEN /\ loc' = Begin(p, l)
                          /\ pc' = [pc EXCEPT ![p] = "wh_decline"]
                     ELSE /\ loc' = Begin(p, CallSms(l, from,
                                       IF intent = "CONFIRM_RIDE" THEN "already_booked" ELSE "not_understood",
                                       "wh_done"))
                          /\ pc' = [pc EXCEPT ![p] = "sms_create"]
    /\ UNCHANGED <<cfg, serial, patient, clock, appt, ride, mock, timers, offerOk, seen, risk, ai, hist, reported>>

WebhookDecline(p) ==
    /\ pc[p] = "wh_decline"
    /\ appt' = [appt EXCEPT ![loc[p].a].needsRide = FALSE]
    /\ loc' = Begin(p, CallSms(loc[p], loc[p].phone, "declined", "wh_done"))
    /\ pc' = [pc EXCEPT ![p] = "sms_create"]
    /\ Silent
    /\ UNCHANGED <<cfg, serial, patient, clock, ride, mock, msgs, timers, offerOk, opsLeft, seen, risk, ai, hist, reported>>

WebhookDone(p) ==
    /\ pc[p] = "wh_done"
    /\ loc' = Finish(p)
    /\ pc' = [pc EXCEPT ![p] = "idle"]
    /\ out' = {Reply("TWIML", loc[p].a)}
    /\ UNCHANGED <<cfg, serial, patient, clock, appt, ride, mock, msgs, timers, offerOk, opsLeft, seen, risk, ai, hist, reported>>

\* POST /api/rides/book: findUnique with the ride included, RIDE_EXISTS if there is one
StartBook(p, a) ==
    /\ CanStart(p)
    /\ a \in Existing
    /\ opsLeft' = opsLeft - 1
    /\ IF ride[a] # NoRide
       THEN /\ loc' = Finish(p)
            /\ pc' = pc
            /\ out' = {Call("book", a), Reply("RIDE_EXISTS", a)}
       ELSE /\ loc' = Begin(p, [Idle EXCEPT !.op = "book", !.a = a])
            /\ pc' = [pc EXCEPT ![p] = "book"]
            /\ out' = {Call("book", a)}
    /\ UNCHANGED <<cfg, serial, patient, clock, appt, ride, mock, msgs, timers, offerOk, seen, risk, ai, hist, reported>>

\* uberHealthService.bookRide
ProviderBook(p) ==
    /\ pc[p] = "book"
    /\ mock' = BookRide(loc[p].a)
    /\ loc' = [loc EXCEPT ![p].uber = Len(mock) + 1]
    /\ pc' = [pc EXCEPT ![p] = "create"]
    /\ Silent
    /\ UNCHANGED <<cfg, serial, patient, clock, appt, ride, msgs, timers, offerOk, opsLeft, seen, risk, ai, hist, reported>>

\* prisma.ride.create; a rejected create ends the handler in its catch
CreateRide(p) ==
    /\ pc[p] = "create"
    /\ LET a == loc[p].a
       IN IF RideRowAccepted(a)
          THEN /\ ride' = [ride EXCEPT ![a] = [status |-> "SCHEDULED", uber |-> loc[p].uber]]
               /\ pc' = [pc EXCEPT ![p] = "confirm"]
               /\ loc' = loc
               /\ out' = {}
          ELSE /\ ride' = ride
               /\ pc' = [pc EXCEPT ![p] = "idle"]
               /\ loc' = Finish(p)
               /\ out' = {Log("UNIQUE_CONSTRAINT", a),
                          Reply(IF loc[p].op = "webhook" THEN "TWIML" ELSE "BOOKING_ERROR", a)}
    /\ UNCHANGED <<cfg, serial, patient, clock, appt, mock, msgs, timers, offerOk, opsLeft, seen, risk, ai, hist, reported>>

\* prisma.appointment.update to CONFIRMED, then the confirmation message
ConfirmAppointment(p) ==
    /\ pc[p] = "confirm"
    /\ LET a == loc[p].a
       IN /\ appt' = [appt EXCEPT ![a].status = "CONFIRMED"]
          /\ IF loc[p].op = "webhook"
             THEN /\ loc' = Begin(p, CallSms(loc[p], loc[p].phone, "booked", "wh_done"))
                  /\ pc' = [pc EXCEPT ![p] = "sms_create"]
                  /\ out' = {Event("RIDE_BOOKED", a)}
             ELSE IF TargetPhone(a) # NoPhone
             THEN /\ loc' = Begin(p, CallSms(loc[p], TargetPhone(a), "confirm", "bk_done"))
                  /\ pc' = [pc EXCEPT ![p] = "sms_create"]
                  /\ out' = {}
             ELSE /\ loc' = Finish(p)
                  /\ pc' = [pc EXCEPT ![p] = "idle"]
                  /\ out' = {Event("RIDE_BOOKED", a), Reply("OK", a)}
    /\ UNCHANGED <<cfg, serial, patient, clock, ride, mock, msgs, timers, offerOk, opsLeft, seen, risk, ai, hist, reported>>

BookDone(p) ==
    /\ pc[p] = "bk_done"
    /\ loc' = Finish(p)
    /\ pc' = [pc EXCEPT ![p] = "idle"]
    /\ out' = {Event("RIDE_BOOKED", loc[p].a), Reply("OK", loc[p].a)}
    /\ UNCHANGED <<cfg, serial, patient, clock, appt, ride, mock, msgs, timers, offerOk, opsLeft, seen, risk, ai, hist, reported>>

---------------------------------------------------------------------------
(* POST /api/appointments/:id/manual-confirm: the coordinator's override,  *)
(* one prisma.appointment.update and the socket event.                     *)

ManualConfirm(p, a) ==
    /\ CanStart(p)
    /\ a \in Existing
    /\ opsLeft' = opsLeft - 1
    /\ appt' = [appt EXCEPT ![a].status = "CONFIRMED", ![a].needsRide = TRUE]
    /\ out' = {Call("manual-confirm", a), Event("APPOINTMENT_UPDATE", a), Reply("OK", a)}
    /\ UNCHANGED <<cfg, serial, patient, clock, ride, mock, msgs, timers, pc, loc, offerOk, seen, risk, ai, hist, reported>>

---------------------------------------------------------------------------
(* POST /api/rides/:id/cancel *)

StartCancel(p, a) ==
    /\ CanStart(p)
    /\ ride[a] # NoRide
    /\ opsLeft' = opsLeft - 1
    /\ loc' = Begin(p, [Idle EXCEPT !.op = "cancel", !.a = a, !.saw = ride[a].status,
                                    !.uber = ride[a].uber])
    /\ pc' = [pc EXCEPT ![p] = "cn_provider"]
    /\ out' = {Call("cancel", a)}
    /\ UNCHANGED <<cfg, serial, patient, clock, appt, ride, mock, msgs, timers, offerOk, seen, risk, ai, hist, reported>>

\* uberHealthService.cancelRide decides; the Ride row's own status is not looked at
CancelProvider(p) ==
    /\ pc[p] = "cn_provider"
    /\ LET id == loc[p].uber
       IN IF InStore(id) /\ ~CancelRefused(mock[id].status)
          THEN /\ mock' = [mock EXCEPT ![id].status = "cancelled"]
               /\ pc' = [pc EXCEPT ![p] = "cn_update"]
               /\ loc' = loc
               /\ out' = {}
          ELSE /\ mock' = mock
               /\ pc' = [pc EXCEPT ![p] = "idle"]
               /\ loc' = Finish(p)
               /\ out' = {Reply("CANCEL_FAILED", loc[p].a)}
    /\ UNCHANGED <<cfg, serial, patient, clock, appt, ride, msgs, timers, offerOk, opsLeft, seen, risk, ai, hist, reported>>

CancelUpdate(p) ==
    /\ pc[p] = "cn_update"
    /\ ride' = [ride EXCEPT ![loc[p].a].status = "CANCELLED"]
    /\ pc' = [pc EXCEPT ![p] = "idle"]
    /\ loc' = Finish(p)
    /\ out' = {Event("RIDE_STATUS_UPDATE", loc[p].a), Reply("OK", loc[p].a)}
    /\ UNCHANGED <<cfg, serial, patient, clock, appt, mock, msgs, timers, offerOk, opsLeft, seen, risk, ai, hist, reported>>

---------------------------------------------------------------------------
(* POST /api/rides/:id/update-status *)

ForcedStatuses == {"SCHEDULED", "IN_PROGRESS", "COMPLETED"}

\* forceStatusUpdate: the store takes the status as given
ForceStatusUpdate(id, st) ==
    IF InStore(id) THEN [mock EXCEPT ![id].status = st] ELSE mock

StartUpdateStatus(p, a, st) ==
    /\ CanStart(p)
    /\ ride[a] # NoRide
    /\ opsLeft' = opsLeft - 1
    /\ loc' = Begin(p, [Idle EXCEPT !.op = "update_status", !.a = a, !.saw = ride[a].status,
                                    !.uber = ride[a].uber, !.arg = st])
    /\ pc' = [pc EXCEPT ![p] = "us_force"]
    /\ out' = {Call("update_status", a)}
    /\ UNCHANGED <<cfg, serial, patient, clock, appt, ride, mock, msgs, timers, offerOk, seen, risk, ai, hist, reported>>

UpdateStatusForce(p) ==
    /\ pc[p] = "us_force"
    /\ mock' = ForceStatusUpdate(loc[p].uber, loc[p].arg)
    /\ pc' = [pc EXCEPT ![p] = "us_update"]
    /\ Silent
    /\ UNCHANGED <<cfg, serial, patient, clock, appt, ride, msgs, timers, loc, offerOk, opsLeft, seen, risk, ai, hist, reported>>

\* prisma.ride.update with the status of the request body, whatever the row holds
UpdateStatusWrite(p) ==
    /\ pc[p] = "us_update"
    /\ ride' = [ride EXCEPT ![loc[p].a].status = loc[p].arg]
    /\ pc' = [pc EXCEPT ![p] = "idle"]
    /\ loc' = Finish(p)
    /\ out' = {Event("RIDE_STATUS_UPDATE", loc[p].a), Reply("OK", loc[p].a)}
    /\ UNCHANGED <<cfg, serial, patient, clock, appt, mock, msgs, timers, offerOk, opsLeft, seen, risk, ai, hist, reported>>

---------------------------------------------------------------------------
(* POST /api/dashboard/demo/fast-forward *)

Targets == {"pickup", "in_progress", "completed"}

ProviderTarget(t) ==
    CASE t = "pickup" -> "arrived" [] t = "in_progress" -> "in_progress" [] OTHER -> "completed"

RideTarget(t) ==
    CASE t = "pickup" -> "DRIVER_ASSIGNED" [] t = "in_progress" -> "IN_PROGRESS" [] OTHER -> "COMPLETED"

FastForwardReply(a) == {Event("DEMO_FAST_FORWARD", a), Reply("OK", a)}

StartFastForward(p, a, t) ==
    /\ CanStart(p)
    /\ a \in Existing
    /\ opsLeft' = opsLeft - 1
    /\ IF ride[a] # NoRide
       THEN /\ loc' = Begin(p, [Idle EXCEPT !.op = "fast_forward", !.a = a, !.uber = ride[a].uber,
                                            !.arg = t])
            /\ pc' = [pc EXCEPT ![p] = "ff_force"]
            /\ out' = {Call("fast_forward", a)}
       ELSE IF t = "completed"
       THEN /\ loc' = Begin(p, [Idle EXCEPT !.op = "fast_forward", !.a = a, !.arg = t])
            /\ pc' = [pc EXCEPT ![p] = "ff_appt"]
            /\ out' = {Call("fast_forward", a)}
       ELSE /\ loc' = Finish(p)
            /\ pc' = pc
            /\ out' = {Call("fast_forward", a)} \cup FastForwardReply(a)
    /\ UNCHANGED <<cfg, serial, patient, clock, appt, ride, mock, msgs, timers, offerOk, seen, risk, ai, hist, reported>>

FastForwardForce(p) ==
    /\ pc[p] = "ff_force"
    /\ mock' = ForceStatusUpdate(loc[p].uber, ProviderTarget(loc[p].arg))
    /\ pc' = [pc EXCEPT ![p] = "ff_ride"]
    /\ Silent
    /\ UNCHANGED <<cfg, serial, patient, clock, appt, ride, msgs, timers, loc, offerOk, opsLeft, seen, risk, ai, hist, reported>>

FastForwardRide(p) ==
    /\ pc[p] = "ff_ride"
    /\ ride' = [ride EXCEPT ![loc[p].a].status = RideTarget(loc[p].arg)]
    /\ IF loc[p].arg = "completed"
       THEN /\ pc' = [pc EXCEPT ![p] = "ff_appt"]
            /\ loc' = loc
            /\ out' = {}
       ELSE /\ pc' = [pc EXCEPT ![p] = "idle"]
            /\ loc' = Finish(p)
            /\ out' = FastForwardReply(loc[p].a)
    /\ UNCHANGED <<cfg, serial, patient, clock, appt, mock, msgs, timers, offerOk, opsLeft, seen, risk, ai, hist, reported>>

FastForwardAppointment(p) ==
    /\ pc[p] = "ff_appt"
    /\ appt' = [appt EXCEPT ![loc[p].a].status = "COMPLETED"]
    /\ pc' = [pc EXCEPT ![p] = "idle"]
    /\ loc' = Finish(p)
    /\ out' = FastForwardReply(loc[p].a) \cup {Event("APPOINTMENT_COMPLETED", loc[p].a)}
    /\ UNCHANGED <<cfg, serial, patient, clock, ride, mock, msgs, timers, offerOk, opsLeft, seen, risk, ai, hist, reported>>

---------------------------------------------------------------------------
(* SchedulerService.updateRideStatuses *)

ActiveRide(a) == ride[a].status \in {"SCHEDULED", "DRIVER_ASSIGNED", "IN_PROGRESS"}

\* statusMap[uberStatus.status] || ride.status
StatusMap(uberStatus, rideStatus) ==
    CASE uberStatus = "scheduled" -> "SCHEDULED"
      [] uberStatus = "driver_assigned" -> "DRIVER_ASSIGNED"
      [] uberStatus = "en_route" -> "DRIVER_ASSIGNED"
      [] uberStatus = "arrived" -> "DRIVER_ASSIGNED"
      [] uberStatus = "in_progress" -> "IN_PROGRESS"
      [] uberStatus = "completed" -> "COMPLETED"
      [] uberStatus = "cancelled" -> "CANCELLED"
      [] OTHER -> rideStatus

\* next ride of the snapshot, or the end of the sweep
StatusLoop(p, todo) ==
    IF todo = <<>>
    THEN /\ loc' = Finish(p)
         /\ pc' = [pc EXCEPT ![p] = "idle"]
    ELSE /\ loc' = Begin(p, [Idle EXCEPT !.op = "update_statuses", !.a = Head(todo).a,
                                         !.saw = Head(todo).status, !.uber = Head(todo).uber,
                                         !.todo = Tail(todo)])
         /\ pc' = [pc EXCEPT ![p] = "ur_get"]

Snapshot(rows) == [i \in 1..Len(rows) |-> [a |-> rows[i], status |-> ride[rows[i]].status,
                                             uber |-> ride[rows[i]].uber]]

StartUpdateRideStatuses(p) ==
    /\ CanStart(p)
    /\ opsLeft' = opsLeft - 1
    /\ StatusLoop(p, Snapshot(Rows(ActiveRide)))
    /\ out' = {Call("update_statuses", "all")}
    /\ UNCHANGED <<cfg, serial, patient, clock, appt, ride, mock, msgs, timers, offerOk, seen, risk, ai, hist, reported>>

\* uberHealthService.getRideStatus: null for an unknown id, else the store is
\* rewritten with the status recomputed from the clock
GetRideStatus(p) ==
    /\ pc[p] = "ur_get"
    /\ LET id == loc[p].uber
       IN IF InStore(id)
          THEN /\ mock' = [mock EXCEPT ![id].status = StatusByTime(@)]
               /\ loc' = [loc EXCEPT ![p].arg = StatusByTime(mock[id].status)]
               /\ pc' = [pc EXCEPT ![p] = "ur_update"]
          ELSE /\ mock' = mock
               /\ StatusLoop(p, loc[p].todo)
    /\ Silent
    /\ UNCHANGED <<cfg, serial, patient, clock, appt, ride, msgs, timers, offerOk, opsLeft, seen, risk, ai, hist, reported>>

StatusChangedAlways(newStatus, oldStatus) == TRUE

\* const statusChanged = newStatus !== ride.status
StatusChanged(newStatus, oldStatus) == newStatus # oldStatus

\* history: the provider status this run read, and whether the run before it,
\* with no other request in between, read the same
ReadBySweep(a, uberStatus) ==
    [status |-> uberStatus, ops |-> opsLeft,
     again |-> seen[a].status = uberStatus /\ seen[a].ops = opsLeft + 1]

\* prisma.ride.update with the mapped status; event and arrival notice on a change
WriteRideStatus(p) ==
    /\ pc[p] = "ur_update"
    /\ LET a == loc[p].a
           newStatus == StatusMap(loc[p].arg, loc[p].saw)
           statusChanged == StatusChanged(newStatus, loc[p].saw)
       IN /\ ride' = [ride EXCEPT ![a].status = newStatus]
          /\ seen' = [seen EXCEPT ![a] = ReadBySweep(a, loc[p].arg)]
          /\ out' = IF statusChanged THEN {Event("RIDE_STATUS_UPDATE", a)} ELSE {}
          /\ IF statusChanged /\ loc[p].arg = "arrived" /\ TargetPhone(a) # NoPhone
             THEN /\ loc' = Begin(p, CallSms(loc[p], TargetPhone(a), "arriving", "ur_next"))
                  /\ pc' = [pc EXCEPT ![p] = "sms_create"]
             ELSE StatusLoop(p, loc[p].todo)
    /\ UNCHANGED <<cfg, serial, patient, clock, appt, mock, msgs, timers, offerOk, opsLeft, risk, ai, hist, reported>>

NextRide(p) ==
    /\ pc[p] = "ur_next"
    /\ StatusLoop(p, loc[p].todo)
    /\ Silent
    /\ UNCHANGED <<cfg, serial, patient, clock, appt, ride, mock, msgs, timers, offerOk, opsLeft, seen, risk, ai, hist, reported>>

---------------------------------------------------------------------------
\* Time passes between requests: a handler runs for milliseconds, the
\* instants are minutes apart.
Tick ==
    /\ clock < Len(TimePoints)
    /\ Quiet
    /\ clock' = clock + 1
    /\ Silent
    /\ UNCHANGED <<cfg, serial, patient, appt, ride, mock, msgs, timers, pc, loc, offerOk, opsLeft, seen, risk, ai, hist, reported>>

Next ==
    \/ \E p \in Procs : SmsCreate(p)
    \/ \E p \in Procs : SmsTestUpdate(p)
    \/ \E p \in Procs : SmsTransport(p)
    \/ \E p \in Procs : SmsStore(p)
    \/ \E p \in Procs, a \in Appts : StartOfferRide(p, a)
    \/ \E p \in Procs : OfferRideFlag(p)
    \/ \E a \in Appts, phone \in Senders : TimerReply(TimerAt("reply", a, phone))
    \/ \E a \in Appts, phone \in Senders : TimerAutoBook(TimerAt("book", a, phone))
    \/ \E a \in Appts, phone \in Senders : TimerConfirm(TimerAt("confirm", a, phone))
    \/ \E p \in Procs : StartSendRideOffers(p)
    \/ \E p \in Procs : SendRideOffersFlag(p)
    \/ \E p \in Procs, from \in Senders, body \in Bodies : StartWebhook(p, from, body)
    \/ \E p \in Procs : WebhookDecline(p)
    \/ \E p \in Procs : WebhookDone(p)
    \/ \E p \in Procs, a \in Appts : StartBook(p, a)
    \/ \E p \in Procs : ProviderBook(p)
    \/ \E p \in Procs : CreateRide(p)
    \/ \E p \in Procs : ConfirmAppointment(p)
    \/ \E p \in Procs : BookDone(p)
    \/ \E p \in Procs, a \in Appts : ManualConfirm(p, a)
    \/ \E p \in Procs, a \in Appts : StartCancel(p, a)
    \/ \E p \in Procs : CancelProvider(p)
    \/ \E p \in Procs : CancelUpdate(p)
    \/ \E p \in Procs, a \in Appts, st \in ForcedStatuses : StartUpdateStatus(p, a, st)
    \/ \E p \in Procs : UpdateStatusForce(p)
    \/ \E p \in Procs : UpdateStatusWrite(p)
    \/ \E p \in Procs, a \in Appts, t \in Targets : StartFastForward(p, a, t)
    \/ \E p \in Procs : FastForwardForce(p)
    \/ \E p \in Procs : FastForwardRide(p)
    \/ \E p \in Procs : FastForwardAppointment(p)
    \/ \E p \in Procs : StartUpdateRideStatuses(p)
    \/ \E p \in Procs : GetRideStatus(p)
    \/ \E p \in Procs : WriteRideStatus(p)
    \/ \E p \in Procs : NextRide(p)
    \/ Tick

Spec == Init /\ [][Next]_vars

SpecSeq == InitSeq /\ [][Next]_vars

---------------------------------------------------------------------------
(* The risk engine: RiskScoreService, the blending of AIRiskScoreService   *)
(* and the places that turn a score into a category.  Distances are in     *)
(* tenths of a mile.                                                       *)

MaxScore == 100
LowMax == 30
MediumMax == 60
MediumMin == 31
HousingHomeless == 40
HousingUnstable == 25
DistanceUnknown == 20
DistanceFar == 30
DistanceMid == 20
DistanceNear == 10
FarAboveTenths == 50
MidFromTenths == 20
PhoneMissing == 25
NoShowEach == 15
NoShowCap == 60
HighConfidence == 80
MediumConfidence == 50

\* bound: no-shows on file inside the six-month window
MaxNoShows == 5

NoDistance == -1     \* distanceFromClinic is null

Scores == 0..MaxScore
\* Math.max(0, Math.min(100, confidence))
Confidences == 0..MaxScore

HousingStatuses == {"HOMELESS", "UNSTABLY_HOUSED", "HOUSED"}
Distances == {NoDistance, 0, 19, 20, 35, 50, 51, 120}
Phones == {NoPhone, "p1"}
\* NoShowHistory rows of the patient: inside the window, and older
Histories == [recent : 0..MaxNoShows, old : {0, 2}]

GetHousingPoints(housingStatus) ==
    CASE housingStatus = "HOMELESS" -> HousingHomeless
      [] housingStatus = "UNSTABLY_HOUSED" -> HousingUnstable
      [] housingStatus = "HOUSED" -> 0
      [] OTHER -> 0

GetDistancePoints(distanceFromClinic) ==
    IF distanceFromClinic = NoDistance THEN DistanceUnknown
    ELSE IF distanceFromClinic > FarAboveTenths THEN DistanceFar
    ELSE IF distanceFromClinic >= MidFromTenths THEN DistanceMid
    ELSE DistanceNear

GetPhonePoints(phoneNumber) == IF phoneNumber # NoPhone THEN 0 ELSE PhoneMissing

\* noShowHistory.count where occurredAt >= six months ago
GetNoShowCount(history) == history.recent

GetNoShowPointsUncapped(noShowCount) == noShowCount * NoShowEach

\* 15 points per no-show, capped at 60
GetNoShowPoints(noShowCount) == Min({noShowCount * NoShowEach, NoShowCap})

GetRiskCategory(score) ==
    IF score <= LowMax THEN "LOW"
    ELSE IF score <= MediumMax THEN "MEDIUM"
    ELSE "HIGH"

CalculateRiskScore(housingStatus, distanceFromClinic, phoneNumber, history) ==
    LET totalScore == Min({GetHousingPoints(housingStatus)
                             + GetDistancePoints(distanceFromClinic)
                             + GetPhonePoints(phoneNumber)
                             + GetNoShowPoints(GetNoShowCount(history)),
                           MaxScore})
    IN [score |-> totalScore, category |-> GetRiskCategory(totalScore)]

HalvedDown(sum) == sum \div 2

\* Math.round(sum / 2) for a sum that is not negative: halves go up
MathRoundHalf(sum) == (sum + 1) \div 2

\* AIRiskScoreService.combineScores
CombineScores(baseResult, adjustedScore, confidence) ==
    LET finalScore == IF confidence >= HighConfidence THEN adjustedScore
                      ELSE IF confidence >= MediumConfidence
                      THEN MathRoundHalf(baseResult.score + adjustedScore)
                      ELSE baseResult.score
        category == IF finalScore <= LowMax THEN "LOW"
                    ELSE IF finalScore <= MediumMax THEN "MEDIUM"
                    ELSE "HIGH"
    IN [score |-> baseResult.score, category |-> category, finalScore |-> finalScore,
        isAIEnhanced |-> TRUE, aiAvailable |-> TRUE]

\* riskScore: { gte: 61 } of the offer sweep and of the dashboard count,
\* needsRide: finalScore >= 61 of the calculate-risk routes
HighRiskThreshold(score) == score >= HighRiskMin

\* riskFilter of GET /api/appointments: the filter a score is listed under
RiskFilter(score) ==
    {f \in {"high", "medium", "low"} :
        \/ f = "high" /\ score >= HighRiskMin
        \/ f = "medium" /\ score >= MediumMin /\ score <= MediumMax
        \/ f = "low" /\ score <= LowMax}

DashboardMediumFrom60(score) ==
    IF score >= HighRiskMin THEN "High" ELSE IF score >= MediumMax THEN "Medium" ELSE "Low"

\* getRiskCategory of the dashboard's utilities
DashboardRiskCategory(score) ==
    IF score >= HighRiskMin THEN "High" ELSE IF score >= MediumMin THEN "Medium" ELSE "Low"

\* riskScoreService.calculateRiskScore(patient, appointment)
CallCalculateRiskScore ==
    /\ risk = NoCalc
    /\ \E housingStatus \in HousingStatuses, distanceFromClinic \in Distances,
          phoneNumber \in Phones, history \in Histories :
          risk' = [op |-> "calculateRiskScore", housingStatus |-> housingStatus,
                   distanceFromClinic |-> distanceFromClinic, phoneNumber |-> phoneNumber,
                   history |-> history,
                   result |-> CalculateRiskScore(housingStatus, distanceFromClinic,
                                                 phoneNumber, history)]
    /\ UNCHANGED <<cfg, serial, patient, clock, appt, ride, mock, msgs, timers, pc, loc,
                   out, offerOk, opsLeft, seen, ai, hist, reported>>

CacheTtlHours == 24
DefaultConfidence == 50

Clamp(lo, hi, x) == Max({lo, Min({hi, x})})

\* Validate and sanitize the response
Sanitized(reply, baseResult) ==
    [aiScore |-> Clamp(0, MaxScore, IF reply.adjustedScore # 0 THEN reply.adjustedScore
                                    ELSE baseResult.score),
     confidence |-> Clamp(0, MaxScore, IF reply.confidence # 0 THEN reply.confidence
                                       ELSE DefaultConfidence)]

\* adjustment: Math.max(-20, Math.min(20, aiResult.adjustment || 0))
AdjustmentMax == 20

\* the object getAIAssessment returns: each field clamped on its own
SanitizedAssessment(reply, baseResult) ==
    [adjustedScore |-> Sanitized(reply, baseResult).aiScore,
     adjustment |-> Clamp(-AdjustmentMax, AdjustmentMax, reply.adjustment),
     confidence |-> Sanitized(reply, baseResult).confidence]

\* JSON the provider can answer with: numbers inside and outside the ranges the
\* prompt asks for
ProviderScores == {-30, 0, 10, 40, 90, 150}
ProviderAdjustments == {-50, -5, 0, 50}
ProviderConfidences == {-10, 0, 30, 49, 50, 79, 80, 120}

\* combineScores(baseResult, aiAssessment)
CallCombineScores ==
    /\ risk = NoCalc
    /\ \E base \in Scores, adjustedScore \in Scores, confidence \in Confidences :
          risk' = [op |-> "combineScores", base |-> base, adjustedScore |-> adjustedScore,
                   confidence |-> confidence,
                   result |-> CombineScores([score |-> base, category |-> GetRiskCategory(base)],
                                            adjustedScore, confidence)]
    /\ UNCHANGED <<cfg, serial, patient, clock, appt, ride, mock, msgs, timers, pc, loc,
                   out, offerOk, opsLeft, seen, ai, hist, reported>>

\* calculateAIEnhancedRiskScore past the cache: getAIAssessment sanitizes the
\* provider's JSON and combineScores blends it with the base result
CallGetAIAssessment ==
    /\ risk = NoCalc
    /\ \E base \in Scores, adjustedScore \in ProviderScores,
          adjustment \in ProviderAdjustments, confidence \in ProviderConfidences :
          LET baseResult == [score |-> base, category |-> GetRiskCategory(base)]
              reply == [kind |-> "json", adjustedScore |-> adjustedScore,
                        adjustment |-> adjustment, confidence |-> confidence]
              assessment == SanitizedAssessment(reply, baseResult)
          IN risk' = [op |-> "getAIAssessment", base |-> base, reply |-> reply,
                      assessment |-> assessment,
                      result |-> CombineScores(baseResult, assessment.adjustedScore,
                                               assessment.confidence)]
    /\ UNCHANGED <<cfg, serial, patient, clock, appt, ride, mock, msgs, timers, pc, loc,
                   out, offerOk, opsLeft, seen, ai, hist, reported>>

\* one score shown to every place that turns a score into a category
CallCategories ==
    /\ risk = NoCalc
    /\ \E score \in Scores :
          risk' = [op |-> "category", score |-> score,
                   engine |-> GetRiskCategory(score),
                   blended |-> CombineScores([score |-> score, category |-> GetRiskCategory(score)],
                                             score, HighConfidence).category,
                   threshold |-> HighRiskThreshold(score),
                   filter |-> RiskFilter(score),
                   dashboard |-> DashboardRiskCategory(score)]
    /\ UNCHANGED <<cfg, serial, patient, clock, appt, ride, mock, msgs, timers, pc, loc,
                   out, offerOk, opsLeft, seen, ai, hist, reported>>

---------------------------------------------------------------------------
(* ClaudeService.parsePatientResponse: the rule tier, then the provider     *)
(* for what the rules leave open.  Confidences are in hundredths.           *)

RuleSettledMin == 90
ConfidenceWord == 95
ConfidenceReschedule == 80
ConfidenceQuestion == 70
ConfidenceLocation == 85
ConfidenceTime == 70
ConfidenceUnknown == 30

Messages == {"YES", "yes", "Yes!", "yes?", " ok ", "NO", "cancel", "dont need it",
             "my friend is taking me", "no my friend is taking me",
             "Please reschedule.", "Can we reschedule?", "Where is my ride?",
             "can you pick me up at the library", "pick me up at the library",
             "pick me up at 3pm", "come by 3pm", "maybe", ""}

\* toLowerCase, trim and the split at whitespace: the words of a message,
\* without the punctuation that ends it
Words(message) ==
    CASE message \in {"YES", "yes", "Yes!", "yes?"} -> <<"yes">>
      [] message = " ok " -> <<"ok">>
      [] message = "NO" -> <<"no">>
      [] message = "cancel" -> <<"cancel">>
      [] message = "dont need it" -> <<"dont", "need", "it">>
      [] message = "my friend is taking me" -> <<"my", "friend", "is", "taking", "me">>
      [] message = "no my friend is taking me" -> <<"no", "my", "friend", "is", "taking", "me">>
      [] message \in {"Please reschedule."} -> <<"please", "reschedule">>
      [] message = "Can we reschedule?" -> <<"can", "we", "reschedule">>
      [] message = "Where is my ride?" -> <<"where", "is", "my", "ride">>
      [] message = "can you pick me up at the library" ->
             <<"can", "you", "pick", "me", "up", "at", "the", "library">>
      [] message = "pick me up at the library" -> <<"pick", "me", "up", "at", "the", "library">>
      [] message = "pick me up at 3pm" -> <<"pick", "me", "up", "at", "3pm">>
      [] message = "come by 3pm" -> <<"come", "by", "3pm">>
      [] message = "maybe" -> <<"maybe">>
      [] OTHER -> <<>>

\* the punctuation that ends the message
Mark(message) ==
    CASE message = "Yes!" -> "!"
      [] message = "Please reschedule." -> "."
      [] message \in {"yes?", "Can we reschedule?", "Where is my ride?"} -> "?"
      [] OTHER -> ""

WordAt(w, i) == IF i >= 1 /\ i <= Len(w) THEN w[i] ELSE ""

\* the words of the sample that begin with a longer word's letters
ProperPrefixes == {<<"cancel", "can">>, <<"dont", "do">>}

StartsWith(word, prefix) == word = prefix \/ <<word, prefix>> \in ProperPrefixes

\* a pattern without anchors: the phrase somewhere in the text
Contains(w, phrase) ==
    \E i \in 1..Len(w) : i + Len(phrase) - 1 <= Len(w) /\ SubSeq(w, i, i + Len(phrase) - 1) = phrase

\* the words of the sample that start with one or two digits
TimeLike == {"3pm"}

ConfirmPhrases == {<<"sounds", "good">>, <<"yes", "please">>, <<"i", "need", "a", "ride">>,
                   <<"i", "want", "a", "ride">>, <<"book", "it">>, <<"lets", "do", "it">>}

DeclinePhrases ==
    {<<"no", "thanks">>, <<"no", "thank", "you">>, <<"i", "have", "a", "ride">>,
     <<"got", "a", "ride">>, <<"im", "good">>, <<"i'm", "good">>, <<"im", "ok">>, <<"i'm", "ok">>}
    \cup {<<"i", m, v, o>> : m \in {"can", "will"}, v \in {"get", "take", "drive"},
                             o \in {"there", "myself"}}

Relatives == {"friend", "family", "wife", "husband", "son", "daughter", "mom", "dad",
              "brother", "sister"}
Driving == {"take", "taking", "drive", "driving", "pick"}
Interrogatives == {"what", "when", "where", "who", "how", "why", "which", "is", "are",
                   "can", "will", "do", "does"}

\* confirmPatterns, every one anchored at both ends
MatchesConfirm(w) ==
    \/ Len(w) = 1 /\ w[1] \in ConfirmPatterns \cup {"please", "definitely", "absolutely"}
    \/ w \in ConfirmPhrases

\* declinePatterns; the open-ended ones are anchored at the start only
MatchesDecline(w) ==
    \/ Len(w) = 1 /\ w[1] \in DeclinePatterns
    \/ w \in DeclinePhrases
    \/ WordAt(w, 1) \in {"dont", "don't"} /\ StartsWith(WordAt(w, 2), "need")
    \/ /\ WordAt(w, 1) \in {"my", "someone"}
       /\ LET k == IF w[1] = "my" THEN 3 ELSE 2
          IN /\ w[1] = "my" => WordAt(w, 2) \in Relatives
             /\ WordAt(w, k) \in {"is", "will"}
             /\ \E v \in Driving : StartsWith(WordAt(w, k + 1), v)

\* reschedulePatterns, none anchored
MatchesReschedule(w) ==
    \/ Contains(w, <<"reschedule">>)
    \/ \E x \in {"time", "date", "appointment"} :
          Contains(w, <<"change", x>>) \/ Contains(w, <<"change", "the", x>>)
    \/ \E x \in {"time", "day", "date"} : Contains(w, <<"different", x>>)
    \/ \E c \in {"cant", "can't"} : Contains(w, <<c, "make", "it">>)
    \/ \E x \in {"appointment", "time"} :
          Contains(w, <<"move", x>>) \/ Contains(w, <<"move", "the", x>>)
    \/ \E d \in {"that", "this"}, x \in {"time", "day", "date"} : Contains(w, <<"not", d, x>>)

\* questionPatterns, tested on the text with its punctuation
MatchesQuestion(w, mark) ==
    \/ mark = "?"
    \/ \E q \in Interrogatives : StartsWith(WordAt(w, 1), q)
    \/ WordAt(w, 1) = "tell" /\ WordAt(w, 2) = "me"
    \/ WordAt(w, 1) = "let" /\ WordAt(w, 2) = "me" /\ WordAt(w, 3) = "know"

\* /pick(?: me)? up (?:at|from) (.+)/i
MatchesLocation(w) ==
    \E i \in 1..Len(w) :
        /\ w[i] = "pick"
        /\ LET k == IF WordAt(w, i + 1) = "me" THEN i + 2 ELSE i + 1
           IN WordAt(w, k) = "up" /\ WordAt(w, k + 1) \in {"at", "from"} /\ k + 2 <= Len(w)

\* /(?:at|around|by) (\d{1,2}(?::\d{2})?\s*(?:am|pm)?)/i
MatchesTime(w) ==
    \E i \in 1..Len(w) : w[i] \in {"at", "around", "by"} /\ WordAt(w, i + 1) \in TimeLike

Parsed(intent, confidence) == [intent |-> intent, confidence |-> confidence]

RuleBasedParsingQuestionFirst(message) ==
    LET w == Words(message)
    IN IF MatchesQuestion(w, Mark(message)) THEN Parsed("QUESTION", ConfidenceQuestion)
       ELSE IF MatchesConfirm(w) THEN Parsed("CONFIRM_RIDE", ConfidenceWord)
       ELSE IF MatchesDecline(w) THEN Parsed("DECLINE_RIDE", ConfidenceWord)
       ELSE IF MatchesReschedule(w) THEN Parsed("RESCHEDULE", ConfidenceReschedule)
       ELSE IF MatchesLocation(w) THEN Parsed("CONFIRM_RIDE", ConfidenceLocation)
       ELSE IF MatchesTime(w) THEN Parsed("CONFIRM_RIDE", ConfidenceTime)
       ELSE Parsed("UNKNOWN", ConfidenceUnknown)

RuleBasedParsing(message) ==
    LET w == Words(message)
    IN IF MatchesConfirm(w) THEN Parsed("CONFIRM_RIDE", ConfidenceWord)
       ELSE IF MatchesDecline(w) THEN Parsed("DECLINE_RIDE", ConfidenceWord)
       ELSE IF MatchesReschedule(w) THEN Parsed("RESCHEDULE", ConfidenceReschedule)
       ELSE IF MatchesQuestion(w, Mark(message)) THEN Parsed("QUESTION", ConfidenceQuestion)
       ELSE IF MatchesLocation(w) THEN Parsed("CONFIRM_RIDE", ConfidenceLocation)
       ELSE IF MatchesTime(w) THEN Parsed("CONFIRM_RIDE", ConfidenceTime)
       ELSE Parsed("UNKNOWN", ConfidenceUnknown)

\* what messages.create can come back with
ParseReplies ==
    [kind : {"error", "not_text", "not_json", "json_null"}, intent : {"UNKNOWN"}, confidence : {0}]
    \cup [kind : {"json"}, intent : {"CONFIRM_RIDE", "DECLINE_RIDE", "QUESTION", "MAYBE", "undefined"},
          confidence : {40, 90}]

\* parseWithClaude: parsed.intent is taken as it comes; content that is not
\* text and text that cannot be parsed give the rule result, and so does an
\* error, which the caller catches
ParseWithClaude(message, reply) ==
    IF reply.kind = "json" THEN Parsed(reply.intent, reply.confidence)
    ELSE RuleBasedParsing(message)

SettledNever(ruleBasedResult) == FALSE

\* if (ruleBasedResult.confidence >= 0.9) return ruleBasedResult
SettledByRules(ruleBasedResult) == ruleBasedResult.confidence >= RuleSettledMin

\* the result, and the number of calls made to the provider
ParsePatientResponseTiers(message, apiAvailable, reply) ==
    LET ruleBasedResult == RuleBasedParsing(message)
    IN IF SettledByRules(ruleBasedResult) THEN [result |-> ruleBasedResult, calls |-> 0]
       ELSE IF apiAvailable THEN [result |-> ParseWithClaude(message, reply), calls |-> 1]
       ELSE [result |-> ruleBasedResult, calls |-> 0]

CallParsePatientResponse ==
    /\ risk = NoCalc
    /\ \E message \in Messages, apiAvailable \in BOOLEAN, reply \in ParseReplies :
          risk' = [op |-> "parsePatientResponse", message |-> message,
                   apiAvailable |-> apiAvailable, reply |-> reply,
                   tier1 |-> RuleBasedParsing(message),
                   returned |-> ParsePatientResponseTiers(message, apiAvailable, reply)]
    /\ UNCHANGED <<cfg, serial, patient, clock, appt, ride, mock, msgs, timers, pc, loc,
                   out, offerOk, opsLeft, seen, ai, hist, reported>>

\* The engine is called once, with any patient, any history and any assessment.
InitRisk ==
    /\ Start(ScenariosTwo, TRUE)
    /\ cfg = "test"
    /\ mock = <<>>
    /\ patient["a1"].phone = NoPhone
    /\ ai = AIOff

NextRisk ==
    \/ CallCalculateRiskScore
    \/ CallCombineScores
    \/ CallGetAIAssessment
    \/ CallCategories
    \/ CallParsePatientResponse

SpecRisk == InitRisk /\ [][NextRisk]_vars

---------------------------------------------------------------------------
(* AIRiskScoreService.calculateAIEnhancedRiskScore, split at its awaits:    *)
(* the base score, the cache lookup, the inference call, the cache write   *)
(* and the appointment update.                                             *)

\* minutes since the first request
Now == TimePoints[1] - TimePoints[clock]

\* what messages.create can come back with: an error, content that is not
\* text, text that is not JSON, or JSON (a field that is 0 or missing is falsy)
Outcomes ==
    [kind : {"error", "not_text", "not_json"}, adjustedScore : {0}, confidence : {0}]
    \cup [kind : {"json"}, adjustedScore : {0, 90}, confidence : {0, 30, 90}]

FallbackMarkedAvailable(baseResult) ==
    [score |-> baseResult.score, category |-> baseResult.category,
     finalScore |-> baseResult.score, isAIEnhanced |-> FALSE, aiAvailable |-> TRUE]

\* { ...baseResult, finalScore: baseResult.score, isAIEnhanced: false, aiAvailable: false }
Fallback(baseResult) ==
    [score |-> baseResult.score, category |-> baseResult.category,
     finalScore |-> baseResult.score, isAIEnhanced |-> FALSE, aiAvailable |-> FALSE]

\* history: what the provider returned for the appointment, and when
Assessed(assessment, at) ==
    [aiScore |-> assessment.aiScore, confidence |-> assessment.confidence, at |-> at]

CachedAssessmentIgnoringExpiry(a) == ai.cache[a]

\* getCachedAssessment: the row, unless there is none or it has expired
CachedAssessment(a) ==
    IF ai.cache[a] = NoEntry \/ Now > ai.cache[a].expiresAt THEN NoEntry ELSE ai.cache[a]

Returns(result) == [ai EXCEPT !.pc = "idle", !.run.ret = result]

\* the call, up to the base score
StartAIEnhanced(a, housingStatus) ==
    /\ ai.pc = "idle"
    /\ opsLeft > 0
    /\ serial => Quiet
    /\ a \in Existing
    /\ opsLeft' = opsLeft - 1
    /\ ai' = [ai EXCEPT !.pc = "ai_cache",
                        !.run = [a |-> a,
                                 base |-> CalculateRiskScore(housingStatus, 35, patient[a].phone,
                                                             [recent |-> 1, old |-> 0]),
                                 got |-> NoEntry, cache0 |-> ai.cache, fields0 |-> ai.fields,
                                 ret |-> NoResult]]
    /\ out' = {Call("calculateAIEnhancedRiskScore", a)}
    /\ UNCHANGED <<cfg, serial, patient, clock, appt, ride, mock, msgs, timers, pc, loc,
                   offerOk, seen, risk, hist, reported>>

\* if (!this.isEnabled || !client) return the base result; else the cache lookup
AIReadCache ==
    /\ ai.pc = "ai_cache"
    /\ LET a == ai.run.a
           cached == CachedAssessment(a)
       IN ai' = IF ~ai.enabled \/ ~ai.configured THEN Returns(Fallback(ai.run.base))
                ELSE IF cached # NoEntry
                THEN Returns(CombineScores(ai.run.base, cached.aiScore, cached.confidence))
                ELSE [ai EXCEPT !.pc = "ai_infer"]
    /\ Silent
    /\ UNCHANGED <<cfg, serial, patient, clock, appt, ride, mock, msgs, timers, pc, loc,
                   offerOk, opsLeft, seen, risk, hist, reported>>

\* getAIAssessment: client.messages.create and the parsing of what it returns
AIInfer(reply) ==
    /\ ai.pc = "ai_infer"
    /\ IF reply.kind = "json"
       THEN /\ ai' = [ai EXCEPT !.pc = "ai_store", !.run.got = Sanitized(reply, ai.run.base),
                               !.assessed[ai.run.a] = Assessed(Sanitized(reply, ai.run.base), Now)]
            /\ out' = {Call("messages.create", ai.run.a)}
       ELSE /\ ai' = Returns(Fallback(ai.run.base))
            /\ out' = {Call("messages.create", ai.run.a), Log("AI_ERROR", ai.run.a)}
    /\ UNCHANGED <<cfg, serial, patient, clock, appt, ride, mock, msgs, timers, pc, loc,
                   offerOk, opsLeft, seen, risk, hist, reported>>

\* cacheAssessment: upsert with expiresAt 24 hours from now
AICacheAssessment ==
    /\ ai.pc = "ai_store"
    /\ ai' = [ai EXCEPT !.pc = "ai_fields",
                        !.cache[ai.run.a] = [aiScore |-> ai.run.got.aiScore,
                                             confidence |-> ai.run.got.confidence,
                                             expiresAt |-> Now + CacheTtlHours * MinutesPerHour]]
    /\ Silent
    /\ UNCHANGED <<cfg, serial, patient, clock, appt, ride, mock, msgs, timers, pc, loc,
                   offerOk, opsLeft, seen, risk, hist, reported>>

\* updateAppointmentWithAI, then return combineScores(baseResult, aiAssessment)
AIUpdateAppointment ==
    /\ ai.pc = "ai_fields"
    /\ ai' = [Returns(CombineScores(ai.run.base, ai.run.got.aiScore, ai.run.got.confidence))
                EXCEPT !.fields[ai.run.a] = [aiRiskScore |-> ai.run.got.aiScore,
                                             aiConfidence |-> ai.run.got.confidence]]
    /\ Silent
    /\ UNCHANGED <<cfg, serial, patient, clock, appt, ride, mock, msgs, timers, pc, loc,
                   offerOk, opsLeft, seen, risk, hist, reported>>

\* an assessment of a1 made 40 minutes before the first request
Preassessed == [aiScore |-> 90, confidence |-> 60, expiresAt |-> 1400]

\* The service as the first request finds it: switched on or off, with or
\* without an API key, a1 assessed earlier or not.
AIStarts ==
    { [AIOff EXCEPT !.enabled = e, !.configured = k, !.cache["a1"] = c,
                    !.assessed["a1"] = IF c = NoEntry THEN NotAssessed
                                       ELSE Assessed(c, c.expiresAt - CacheTtlHours * MinutesPerHour),
                    !.fields["a1"] = IF c = NoEntry THEN NoFields
                                     ELSE [aiRiskScore |-> c.aiScore, aiConfidence |-> c.confidence]] :
        e \in BOOLEAN, k \in BOOLEAN, c \in {NoEntry, Preassessed} }

\* assessments next to the offers and the inbound messages of one appointment
InitAI == Start(ScenariosOne, TRUE) /\ ai \in AIStarts

NextAI ==
    \/ \E a \in Appts, h \in {"HOMELESS", "HOUSED"} : StartAIEnhanced(a, h)
    \/ AIReadCache
    \/ \E reply \in Outcomes : AIInfer(reply)
    \/ AICacheAssessment
    \/ AIUpdateAppointment
    \/ \E p \in Procs : SmsCreate(p)
    \/ \E p \in Procs : SmsTestUpdate(p)
    \/ \E p \in Procs : SmsTransport(p)
    \/ \E p \in Procs : SmsStore(p)
    \/ \E p \in Procs, a \in Appts : StartOfferRide(p, a)
    \/ \E p \in Procs : OfferRideFlag(p)
    \/ \E a \in Appts, phone \in Senders : TimerReply(TimerAt("reply", a, phone))
    \/ \E a \in Appts, phone \in Senders : TimerAutoBook(TimerAt("book", a, phone))
    \/ \E a \in Appts, phone \in Senders : TimerConfirm(TimerAt("confirm", a, phone))
    \/ \E p \in Procs, from \in Senders, body \in Bodies : StartWebhook(p, from, body)
    \/ \E p \in Procs : WebhookDecline(p)
    \/ \E p \in Procs : WebhookDone(p)
    \/ \E p \in Procs : ProviderBook(p)
    \/ \E p \in Procs : CreateRide(p)
    \/ \E p \in Procs : ConfirmAppointment(p)
    \/ Tick

SpecAI == InitAI /\ [][NextAI]_vars

---------------------------------------------------------------------------
(* SchedulerService: the scoring sweep, the reminder sweep and the          *)
(* end-of-day pass.  The appointments are at 14:00; their patients are      *)
(* homeless and live 3.5 miles from the clinic.                            *)

ScoringWindowDays == 7
ReminderFromMin == 120
ReminderToMin == 150

AppointmentTimeOfDay == 14 * MinutesPerHour

\* what the scoring engine reads from the patient row and from NoShowHistory
HousingStatusOf(a) == "HOMELESS"
DistanceOf(a) == 35
HistoryOf(a) == [recent |-> hist[a], old |-> 0]

\* appointmentDate between now and seven days from now
InScoringWindow(a) ==
    /\ MinutesToAppointment >= 0
    /\ MinutesToAppointment <= ScoringWindowDays * 24 * MinutesPerHour

\* the findMany filter of calculateAllRiskScores
ScoringCandidate(a) ==
    /\ a \in Existing
    /\ InScoringWindow(a)
    /\ appt[a].status \in {"SCHEDULED", "CONFIRMED"}

\* next appointment of the query, or the end of the sweep
ScoringLoop(p, todo) ==
    IF todo = <<>>
    THEN /\ loc' = Finish(p)
         /\ pc' = [pc EXCEPT ![p] = "idle"]
    ELSE /\ loc' = Begin(p, [loc[p] EXCEPT !.a = Head(todo), !.todo = Tail(todo), !.score = -1])
         /\ pc' = [pc EXCEPT ![p] = "rs_calc"]

StartCalculateAllRiskScores(p) ==
    /\ CanStart(p)
    /\ opsLeft' = opsLeft - 1
    /\ LET found == Rows(ScoringCandidate)
       IN IF found = <<>>
          THEN /\ loc' = Finish(p)
               /\ pc' = [pc EXCEPT ![p] = "idle"]
          ELSE /\ loc' = Begin(p, [Idle EXCEPT !.op = "risk_scores", !.a = Head(found),
                                               !.todo = Tail(found),
                                               !.pre = {found[i] : i \in 1..Len(found)}])
               /\ pc' = [pc EXCEPT ![p] = "rs_calc"]
    /\ out' = {Call("risk_scores", "all")}
    /\ UNCHANGED <<cfg, serial, patient, clock, appt, ride, mock, msgs, timers, offerOk, seen, risk, ai, hist, reported>>

\* riskScoreService.calculateRiskScore(appointment.patient, appointment)
CalculateItem(p) ==
    /\ pc[p] = "rs_calc"
    /\ LET a == loc[p].a
       IN loc' = [loc EXCEPT ![p].score =
                     CalculateRiskScore(HousingStatusOf(a), DistanceOf(a), patient[a].phone,
                                        HistoryOf(a)).score]
    /\ pc' = [pc EXCEPT ![p] = "rs_update"]
    /\ Silent
    /\ UNCHANGED <<cfg, serial, patient, clock, appt, ride, mock, msgs, timers, offerOk, opsLeft, seen, risk, ai, hist, reported>>

\* needsRide: riskResult.category === 'HIGH'
NeedsRide(score) == GetRiskCategory(score) = "HIGH"

\* prisma.appointment.update({ riskScore, needsRide }) and the event
UpdateItem(p) ==
    /\ pc[p] = "rs_update"
    /\ LET a == loc[p].a
       IN /\ appt' = [appt EXCEPT ![a].riskScore = loc[p].score,
                                  ![a].needsRide = NeedsRide(loc[p].score)]
          /\ out' = {Event("RISK_SCORE_CALCULATED", a)}
    /\ ScoringLoop(p, loc[p].todo)
    /\ UNCHANGED <<cfg, serial, patient, clock, ride, mock, msgs, timers, offerOk, opsLeft, seen, risk, ai, hist, reported>>

\* pickupTime between two hours and two and a half hours from now
InReminderWindow(a) ==
    /\ MinutesUntilPickup >= ReminderFromMin
    /\ MinutesUntilPickup <= ReminderToMin

\* status: { in: [SCHEDULED, DRIVER_ASSIGNED] }
ReminderStatuses == {"SCHEDULED", "DRIVER_ASSIGNED"}

\* the findMany filter of sendRideReminders
ReminderCandidate(a) ==
    /\ a \in Existing
    /\ ride[a] # NoRide
    /\ InReminderWindow(a)
    /\ ride[a].status \in ReminderStatuses

\* enter the loop body for the next ride whose patient has a number, or end
ReminderLoop(p, todo) ==
    LET rest == SkipNoContact(todo)
    IN IF rest = <<>>
       THEN /\ loc' = Finish(p)
            /\ pc' = [pc EXCEPT ![p] = "idle"]
       ELSE /\ loc' = Begin(p, CallSms([Idle EXCEPT !.op = "send_reminders", !.a = Head(rest),
                                                    !.todo = Tail(rest)],
                                       TargetPhone(Head(rest)), "reminder", "sr_sent"))
            /\ pc' = [pc EXCEPT ![p] = "sms_create"]

StartSendRideReminders(p) ==
    /\ CanStart(p)
    /\ opsLeft' = opsLeft - 1
    /\ ReminderLoop(p, Rows(ReminderCandidate))
    /\ out' = {Call("send_reminders", "all")}
    /\ UNCHANGED <<cfg, serial, patient, clock, appt, ride, mock, msgs, timers, offerOk, seen, risk, ai, hist, reported>>

\* sendRideReminder has returned: the event, whatever the transport said
ReminderSent(p) ==
    /\ pc[p] = "sr_sent"
    /\ out' = {Event("RIDE_REMINDER_SENT", loc[p].a)}
    /\ ReminderLoop(p, loc[p].todo)
    /\ UNCHANGED <<cfg, serial, patient, clock, appt, ride, mock, msgs, timers, offerOk, opsLeft, seen, risk, ai, hist, reported>>

\* appointmentDate between 00:00 and 23:59:59.999 of the current day
Today(a) ==
    /\ MinutesToAppointment <= AppointmentTimeOfDay
    /\ MinutesToAppointment > AppointmentTimeOfDay - 24 * MinutesPerHour

NoShowStatusesAny == AppointmentStatus

\* status: { in: [SCHEDULED, CONFIRMED] }
NoShowStatuses == {"SCHEDULED", "CONFIRMED"}

\* the findMany filter of markNoShows
NoShowCandidate(a) ==
    /\ a \in Existing
    /\ Today(a)
    /\ appt[a].status \in NoShowStatuses

\* next appointment of the query, or the end of the pass
NoShowLoop(p, todo, found) ==
    IF todo = <<>>
    THEN /\ loc' = Finish(p)
         /\ pc' = [pc EXCEPT ![p] = "idle"]
    ELSE /\ loc' = Begin(p, [Idle EXCEPT !.op = "mark_no_shows", !.a = Head(todo),
                                         !.todo = Tail(todo), !.pre = found])
         /\ pc' = [pc EXCEPT ![p] = "mn_update"]

StartMarkNoShows(p) ==
    /\ CanStart(p)
    /\ opsLeft' = opsLeft - 1
    /\ LET found == Rows(NoShowCandidate)
       IN NoShowLoop(p, found, {found[i] : i \in 1..Len(found)})
    /\ out' = {Call("mark_no_shows", "all")}
    /\ UNCHANGED <<cfg, serial, patient, clock, appt, ride, mock, msgs, timers, offerOk, seen, risk, ai, hist, reported>>

\* prisma.appointment.update({ status: NO_SHOW })
MarkNoShow(p) ==
    /\ pc[p] = "mn_update"
    /\ appt' = [appt EXCEPT ![loc[p].a].status = "NO_SHOW"]
    /\ pc' = [pc EXCEPT ![p] = "mn_record"]
    /\ Silent
    /\ UNCHANGED <<cfg, serial, patient, clock, ride, mock, msgs, timers, loc, offerOk, opsLeft, seen, risk, ai, hist, reported>>

\* prisma.noShowHistory.create and the event
RecordNoShow(p) ==
    /\ pc[p] = "mn_record"
    /\ hist' = [hist EXCEPT ![loc[p].a] = @ + 1]
    /\ out' = {Event("APPOINTMENT_UPDATE", loc[p].a)}
    /\ NoShowLoop(p, loc[p].todo, loc[p].pre)
    /\ UNCHANGED <<cfg, serial, patient, clock, appt, ride, mock, msgs, timers, offerOk, opsLeft, seen, risk, ai, reported>>

\* the sweeps and the demo fast-forward one after the other, on two
\* appointments; a1 may have a ride booked and an assessment in the cache
InitSweep == Start(ScenariosTwo, TRUE) /\ ai \in AIStarts

NextSweep ==
    \/ \E p \in Procs : SmsCreate(p)
    \/ \E p \in Procs : SmsTestUpdate(p)
    \/ \E p \in Procs : SmsTransport(p)
    \/ \E p \in Procs : SmsStore(p)
    \/ \E p \in Procs : StartCalculateAllRiskScores(p)
    \/ \E p \in Procs : CalculateItem(p)
    \/ \E p \in Procs : UpdateItem(p)
    \/ \E p \in Procs : StartSendRideOffers(p)
    \/ \E p \in Procs : SendRideOffersFlag(p)
    \/ \E p \in Procs : StartSendRideReminders(p)
    \/ \E p \in Procs : ReminderSent(p)
    \/ \E p \in Procs : StartMarkNoShows(p)
    \/ \E p \in Procs : MarkNoShow(p)
    \/ \E p \in Procs : RecordNoShow(p)
    \/ \E p \in Procs, a \in Appts, t \in Targets : StartFastForward(p, a, t)
    \/ \E p \in Procs : FastForwardForce(p)
    \/ \E p \in Procs : FastForwardRide(p)
    \/ \E p \in Procs : FastForwardAppointment(p)
    \/ Tick

SpecSweep == InitSweep /\ [][NextSweep]_vars

---------------------------------------------------------------------------
(* The sweeps when a store write or a provider call throws.  Four sweeps    *)
(* wrap the body of their loop in try/catch; markNoShows does not.         *)

CaughtSweeps == {"send_offers", "send_reminders", "update_statuses"}

\* prisma.sMSMessage.create rejects inside sendSMS: the error leaves sendSMS
\* and is caught by the loop of the sweep, which goes on to its next item
SmsCreateThrows(p) ==
    /\ pc[p] = "sms_create"
    /\ loc[p].op \in CaughtSweeps
    /\ CASE loc[p].op = "send_offers" -> OfferLoop(p, loc[p].todo, {Log("ERROR", loc[p].a)})
         [] loc[p].op = "send_reminders" ->
                ReminderLoop(p, loc[p].todo) /\ out' = {Log("ERROR", loc[p].a)}
         [] loc[p].op = "update_statuses" ->
                StatusLoop(p, loc[p].todo) /\ out' = {Log("ERROR", loc[p].a)}
    /\ UNCHANGED <<cfg, serial, patient, clock, appt, ride, mock, msgs, timers, offerOk, opsLeft, seen, risk, ai, hist, reported>>

\* uberHealthService.getRideStatus throws: caught, next ride
GetRideStatusThrows(p) ==
    /\ pc[p] = "ur_get"
    /\ StatusLoop(p, loc[p].todo)
    /\ out' = {Log("ERROR", loc[p].a)}
    /\ UNCHANGED <<cfg, serial, patient, clock, appt, ride, mock, msgs, timers, offerOk, opsLeft, seen, risk, ai, hist, reported>>

\* prisma.appointment.update rejects in the scoring sweep: caught, next appointment
UpdateItemThrows(p) ==
    /\ pc[p] = "rs_update"
    /\ ScoringLoop(p, loc[p].todo)
    /\ out' = {Log("ERROR", loc[p].a)}
    /\ UNCHANGED <<cfg, serial, patient, clock, appt, ride, mock, msgs, timers, offerOk, opsLeft, seen, risk, ai, hist, reported>>

\* the rejection leaves markNoShows: the pass is over
NoShowPassAborts(p) ==
    /\ pc' = [pc EXCEPT ![p] = "idle"]
    /\ loc' = Finish(p)
    /\ out' = {Log("ERROR", loc[p].a)}

\* what a rejected write does to the pass: there is no try/catch in its loop
NoShowWriteRejected(p) == NoShowPassAborts(p)

\* prisma.appointment.update rejects in markNoShows
MarkNoShowThrows(p) ==
    /\ pc[p] = "mn_update"
    /\ NoShowWriteRejected(p)
    /\ UNCHANGED <<cfg, serial, patient, clock, appt, ride, mock, msgs, timers, offerOk, opsLeft, seen, risk, ai, hist, reported>>

\* prisma.noShowHistory.create rejects in markNoShows
RecordNoShowThrows(p) ==
    /\ pc[p] = "mn_record"
    /\ NoShowWriteRejected(p)
    /\ UNCHANGED <<cfg, serial, patient, clock, appt, ride, mock, msgs, timers, offerOk, opsLeft, seen, risk, ai, hist, reported>>

\* the five sweeps one after the other, with writes and calls that may throw
InitFault == Start(ScenariosTwo, TRUE) /\ ai = AIOff

NextFault ==
    \/ \E p \in Procs : SmsCreate(p)
    \/ \E p \in Procs : SmsTestUpdate(p)
    \/ \E p \in Procs : SmsTransport(p)
    \/ \E p \in Procs : SmsStore(p)
    \/ \E p \in Procs : SmsCreateThrows(p)
    \/ \E p \in Procs : StartCalculateAllRiskScores(p)
    \/ \E p \in Procs : CalculateItem(p)
    \/ \E p \in Procs : UpdateItem(p)
    \/ \E p \in Procs : UpdateItemThrows(p)
    \/ \E p \in Procs : StartSendRideOffers(p)
    \/ \E p \in Procs : SendRideOffersFlag(p)
    \/ \E p \in Procs : StartSendRideReminders(p)
    \/ \E p \in Procs : ReminderSent(p)
    \/ \E p \in Procs : StartUpdateRideStatuses(p)
    \/ \E p \in Procs : GetRideStatus(p)
    \/ \E p \in Procs : GetRideStatusThrows(p)
    \/ \E p \in Procs : WriteRideStatus(p)
    \/ \E p \in Procs : NextRide(p)
    \/ \E p \in Procs : StartMarkNoShows(p)
    \/ \E p \in Procs : MarkNoShow(p)
    \/ \E p \in Procs : RecordNoShow(p)
    \/ \E p \in Procs : MarkNoShowThrows(p)
    \/ \E p \in Procs : RecordNoShowThrows(p)
    \/ Tick

SpecFault == InitFault /\ [][NextFault]_vars

---------------------------------------------------------------------------
(* Termination.  A handler's own steps are taken once they are enabled:    *)
(* the event loop runs every continuation whose promise has settled.  The  *)
(* answer of the message transport is the transport's step: sendSMS awaits *)
(* client.messages.create with no timeout, no race and no abort signal, so *)
(* nothing but the answer continues the handler.                           *)

\* a continuation of the handler in slot p that waits for nothing outside
\* the process and its database
Continues(p) ==
    \/ SmsCreate(p)
    \/ SmsTestUpdate(p)
    \/ SmsStore(p)
    \/ SendRideOffersFlag(p)
    \/ WebhookDecline(p)
    \/ WebhookDone(p)
    \/ ProviderBook(p)
    \/ CreateRide(p)
    \/ ConfirmAppointment(p)

\* the offer sweep and the inbound messages of one appointment, one after
\* the other
InitHang == Start(ScenariosOne, TRUE) /\ ai = AIOff

NextHang ==
    \/ \E p \in Procs : SmsCreate(p)
    \/ \E p \in Procs : SmsTestUpdate(p)
    \/ \E p \in Procs : SmsTransport(p)
    \/ \E p \in Procs : SmsStore(p)
    \/ \E p \in Procs : StartSendRideOffers(p)
    \/ \E p \in Procs : SendRideOffersFlag(p)
    \/ \E p \in Procs, from \in Senders, body \in Bodies : StartWebhook(p, from, body)
    \/ \E p \in Procs : WebhookDecline(p)
    \/ \E p \in Procs : WebhookDone(p)
    \/ \E p \in Procs : ProviderBook(p)
    \/ \E p \in Procs : CreateRide(p)
    \/ \E p \in Procs : ConfirmAppointment(p)

SpecHang == InitHang /\ [][NextHang]_vars /\ \A p \in Procs : WF_vars(Continues(p))

---------------------------------------------------------------------------
(* The CONFIRM branch of the webhook when a store write is rejected.  The  *)
(* handler's catch logs the error and answers with the empty TwiML; what   *)
(* was done before the rejected write stays done.                          *)

\* the handler ends in its catch
WebhookCatches(p) ==
    /\ pc' = [pc EXCEPT ![p] = "idle"]
    /\ loc' = Finish(p)
    /\ out' = {Log("WEBHOOK_ERROR", loc[p].a), Reply("TWIML", loc[p].a)}

\* prisma.ride.create rejects after bookRide has returned
CreateRideThrows(p) ==
    /\ pc[p] = "create"
    /\ loc[p].op = "webhook"
    /\ WebhookCatches(p)
    /\ UNCHANGED <<cfg, serial, patient, clock, appt, ride, mock, msgs, timers, offerOk, opsLeft, seen, risk, ai, hist, reported>>

\* prisma.appointment.update rejects after the Ride row has been created
ConfirmAppointmentThrows(p) ==
    /\ pc[p] = "confirm"
    /\ loc[p].op = "webhook"
    /\ WebhookCatches(p)
    /\ UNCHANGED <<cfg, serial, patient, clock, appt, ride, mock, msgs, timers, offerOk, opsLeft, seen, risk, ai, hist, reported>>

\* the offer sweep has sent a1 its offer; what follows are inbound messages
\* and status sweeps, one after the other
InitCrash ==
    /\ cfg \in {"test", "live"}
    /\ serial = TRUE
    /\ patient \in {s \in ScenariosOne : s["a1"].phone # NoPhone \/ s["a1"].caseworker # NoPhone}
    /\ clock = 1
    /\ appt = [a \in Appts |-> [status |-> "SCHEDULED", rideOfferSent |-> a = "a1",
                                needsRide |-> TRUE, riskScore |-> 85]]
    /\ ride = [a \in Appts |-> NoRide]
    /\ mock = <<>>
    /\ msgs = <<[OutboundRecord("a1", TargetPhone("a1"), OfferKind("a1"), "send_offers")
                    EXCEPT !.status = "DELIVERED", !.sid = 1]>>
    /\ timers = {}
    /\ pc = [p \in Procs |-> "idle"]
    /\ loc = [p \in Procs |-> Idle]
    /\ out = {}
    /\ offerOk = {"a1"}
    /\ opsLeft = MaxOps + 1
    /\ seen = [a \in Appts |-> NotRead]
    /\ risk = NoCalc
    /\ ai = AIOff
    /\ hist = [a \in Appts |-> 0]
    /\ reported = {}

NextCrash ==
    \/ \E p \in Procs : SmsCreate(p)
    \/ \E p \in Procs : SmsTestUpdate(p)
    \/ \E p \in Procs : SmsTransport(p)
    \/ \E p \in Procs : SmsStore(p)
    \/ \E p \in Procs, from \in Senders, body \in Bodies : StartWebhook(p, from, body)
    \/ \E p \in Procs : WebhookDecline(p)
    \/ \E p \in Procs : WebhookDone(p)
    \/ \E p \in Procs : ProviderBook(p)
    \/ \E p \in Procs : CreateRide(p)
    \/ \E p \in Procs : CreateRideThrows(p)
    \/ \E p \in Procs : ConfirmAppointment(p)
    \/ \E p \in Procs : ConfirmAppointmentThrows(p)
    \/ \E p \in Procs : StartUpdateRideStatuses(p)
    \/ \E p \in Procs : GetRideStatus(p)
    \/ \E p \in Procs : WriteRideStatus(p)
    \/ \E p \in Procs : NextRide(p)
    \/ Tick

SpecCrash == InitCrash /\ [][NextCrash]_vars

---------------------------------------------------------------------------
(* POST /api/sms/simulate-reply *)

\* findUnique and the number the reply is simulated from
StartSimulateReply(p, a, body) ==
    /\ CanStart(p)
    /\ opsLeft' = opsLeft - 1
    /\ IF a \notin Existing
       THEN /\ loc' = Finish(p)
            /\ pc' = pc
            /\ out' = {Call("simulate_reply", a), Reply("NOT_FOUND", a)}
       ELSE IF TargetPhone(a) = NoPhone
       THEN /\ loc' = Finish(p)
            /\ pc' = pc
            /\ out' = {Call("simulate_reply", a), Reply("NO_PHONE", a)}
       ELSE /\ loc' = Begin(p, [Idle EXCEPT !.op = "simulate_reply", !.a = a,
                                            !.phone = TargetPhone(a), !.arg = body,
                                            !.saw = ride[a].status])
            /\ pc' = [pc EXCEPT ![p] = "sim_record"]
            /\ out' = {Call("simulate_reply", a)}
    /\ UNCHANGED <<cfg, serial, patient, clock, appt, ride, mock, msgs, timers, offerOk, seen, risk, ai, hist, reported>>

\* handleIncomingSMS, parsePatientResponse, the SMS_RECEIVED event and the
\* response: the parsed intent is reported, nothing is done with it
SimulateRecord(p) ==
    /\ pc[p] = "sim_record"
    /\ InboundRowAccepted(LastOutbound(loc[p].phone))
    /\ msgs' = Append(msgs, [a |-> LastOutbound(loc[p].phone), phone |-> loc[p].phone,
                             dir |-> "INBOUND", status |-> "RECEIVED", kind |-> loc[p].arg,
                             sid |-> 0, by |-> "simulate_reply"])
    /\ loc' = Finish(p)
    /\ pc' = [pc EXCEPT ![p] = "idle"]
    /\ out' = {Event("SMS_RECEIVED", loc[p].a), Reply("OK", loc[p].a)}
    /\ UNCHANGED <<cfg, serial, patient, clock, appt, ride, mock, timers, offerOk, opsLeft, seen, risk, ai, hist, reported>>

\* simulated and real replies to the offer of a1, one after the other
NextSim ==
    \/ \E p \in Procs : SmsCreate(p)
    \/ \E p \in Procs : SmsTestUpdate(p)
    \/ \E p \in Procs : SmsTransport(p)
    \/ \E p \in Procs : SmsStore(p)
    \/ \E p \in Procs, from \in Senders, body \in Bodies : StartWebhook(p, from, body)
    \/ \E p \in Procs : WebhookDecline(p)
    \/ \E p \in Procs : WebhookDone(p)
    \/ \E p \in Procs : ProviderBook(p)
    \/ \E p \in Procs : CreateRide(p)
    \/ \E p \in Procs : ConfirmAppointment(p)
    \/ \E p \in Procs, a \in Appts, body \in Bodies : StartSimulateReply(p, a, body)
    \/ \E p \in Procs : SimulateRecord(p)

SpecSim == InitCrash /\ [][NextSim]_vars

---------------------------------------------------------------------------
(* POST /api/appointments/:id/mark-noshow, next to the end-of-day pass *)

\* prisma.appointment.update({ status: NO_SHOW }), whatever the status was
StartMarkNoshow(p, a) ==
    /\ CanStart(p)
    /\ a \in Existing
    /\ opsLeft' = opsLeft - 1
    /\ appt' = [appt EXCEPT ![a].status = "NO_SHOW"]
    /\ loc' = Begin(p, [Idle EXCEPT !.op = "mark_noshow", !.a = a])
    /\ pc' = [pc EXCEPT ![p] = "mr_record"]
    /\ out' = {Call("mark_noshow", a)}
    /\ UNCHANGED <<cfg, serial, patient, clock, ride, mock, msgs, timers, offerOk, seen, risk, ai, hist, reported>>

\* Record in no-show history, then the event and the response
MarkNoshowRecord(p) ==
    /\ pc[p] = "mr_record"
    /\ hist' = [hist EXCEPT ![loc[p].a] = @ + 1]
    /\ out' = {Event("APPOINTMENT_UPDATE", loc[p].a), Reply("OK", loc[p].a)}
    /\ loc' = Finish(p)
    /\ pc' = [pc EXCEPT ![p] = "idle"]
    /\ UNCHANGED <<cfg, serial, patient, clock, appt, ride, mock, msgs, timers, offerOk, opsLeft, seen, risk, ai, reported>>

\* the coordinator's button and the 20:00 pass, one request after the other
NextNoShow ==
    \/ \E p \in Procs, a \in Appts : StartMarkNoshow(p, a)
    \/ \E p \in Procs : MarkNoshowRecord(p)
    \/ \E p \in Procs : StartMarkNoShows(p)
    \/ \E p \in Procs : MarkNoShow(p)
    \/ \E p \in Procs : RecordNoShow(p)
    \/ Tick

SpecNoShow == InitSeq /\ [][NextNoShow]_vars

---------------------------------------------------------------------------
(* POST /api/sms/status-webhook: the transport's status callbacks *)

MessageStatuses == {"queued", "sent", "delivered", "failed", "undelivered"}

\* callbacks that say the message did not reach the phone
FailureStatuses == {"failed", "undelivered"}

\* Map Twilio status to our status
DbStatus(MessageStatus) ==
    CASE MessageStatus = "delivered" -> "DELIVERED"
      [] MessageStatus = "read" -> "READ"
      [] MessageStatus \in {"sent", "queued"} -> "SENT"
      [] MessageStatus \in FailureStatuses -> "FAILED"
      [] OTHER -> "SENT"

\* the SIDs messages.create has returned: stored in a row, or still in the
\* hands of a sendSMS that has not written it yet
IssuedSids ==
    IF TwilioTestMode THEN {}
    ELSE {i \in 1..Len(msgs) : msgs[i].sid # 0}
         \cup {loc[q].msg : q \in {r \in Procs : pc[r] = "sms_store" /\ loc[r].ok}}

\* where: { twilioSid: MessageSid }
RowsWithSid(MessageSid) == {i \in 1..Len(msgs) : msgs[i].sid = MessageSid}

\* updateMany sets the status of the rows that carry the SID
StartStatusWebhook(p, MessageSid, MessageStatus) ==
    /\ CanStart(p)
    /\ MessageSid \in IssuedSids
    /\ opsLeft' = opsLeft - 1
    /\ msgs' = [i \in 1..Len(msgs) |->
                  IF i \in RowsWithSid(MessageSid)
                  THEN [msgs[i] EXCEPT !.status = DbStatus(MessageStatus)]
                  ELSE msgs[i]]
    /\ reported' = IF MessageStatus \in FailureStatuses THEN reported \cup {MessageSid}
                   ELSE reported
    /\ IF RowsWithSid(MessageSid) # {}
       THEN /\ loc' = Begin(p, [Idle EXCEPT !.op = "status_webhook", !.msg = MessageSid,
                                            !.arg = MessageStatus])
            /\ pc' = [pc EXCEPT ![p] = "sw_find"]
            /\ out' = {Call("status_webhook", "all")}
       ELSE /\ loc' = Finish(p)
            /\ pc' = pc
            /\ out' = {Call("status_webhook", "all"), Reply("OK", "all")}
    /\ UNCHANGED <<cfg, serial, patient, clock, appt, ride, mock, timers, offerOk, seen, risk, ai, hist>>

\* findFirst by SID, the SMS_STATUS_UPDATE event and res.sendStatus(200)
StatusWebhookEmit(p) ==
    /\ pc[p] = "sw_find"
    /\ out' = {Reply("OK", "all")}
              \cup {Event("SMS_STATUS_UPDATE", msgs[i].a) :
                       i \in IF RowsWithSid(loc[p].msg) = {} THEN {}
                             ELSE {Min(RowsWithSid(loc[p].msg))}}
    /\ loc' = Finish(p)
    /\ pc' = [pc EXCEPT ![p] = "idle"]
    /\ UNCHANGED <<cfg, serial, patient, clock, appt, ride, mock, msgs, timers, offerOk, opsLeft, seen, risk, ai, hist, reported>>

\* Twilio credentials set: every send goes to the transport
InitStatus == Init /\ cfg = "live"

\* an offer being sent while callbacks for it and for earlier messages come in
NextStatus ==
    \/ \E p \in Procs : SmsCreate(p)
    \/ \E p \in Procs : SmsTransport(p)
    \/ \E p \in Procs : SmsStore(p)
    \/ \E p \in Procs, a \in Appts : StartOfferRide(p, a)
    \/ \E p \in Procs : OfferRideFlag(p)
    \/ \E p \in Procs, MessageSid \in 1..(MaxOps + 2), MessageStatus \in MessageStatuses :
          StartStatusWebhook(p, MessageSid, MessageStatus)
    \/ \E p \in Procs : StatusWebhookEmit(p)

SpecStatus == InitStatus /\ [][NextStatus]_vars

---------------------------------------------------------------------------
(* GET /api/rides/:id: the ride row with the provider's latest status *)

StartGetRide(p, a) ==
    /\ CanStart(p)
    /\ opsLeft' = opsLeft - 1
    /\ IF ride[a] = NoRide
       THEN /\ loc' = Finish(p)
            /\ pc' = pc
            /\ out' = {Call("get_ride", a), Reply("NOT_FOUND", a)}
       ELSE /\ loc' = Begin(p, [Idle EXCEPT !.op = "get_ride", !.a = a, !.uber = ride[a].uber,
                                            !.saw = ride[a].status])
            /\ pc' = [pc EXCEPT ![p] = "gr_status"]
            /\ out' = {Call("get_ride", a)}
    /\ UNCHANGED <<cfg, serial, patient, clock, appt, ride, mock, msgs, timers, offerOk, seen, risk, ai, hist, reported>>

\* Get latest status from Uber: getRideStatus rewrites the store; the response
\* carries what it returned (null for an id the store does not hold)
GetRideProvider(p) ==
    /\ pc[p] = "gr_status"
    /\ LET id == loc[p].uber
       IN IF InStore(id)
          THEN /\ mock' = [mock EXCEPT ![id].status = StatusByTime(@)]
               /\ out' = {Reply(StatusByTime(mock[id].status), loc[p].a)}
          ELSE /\ mock' = mock
               /\ out' = {Reply("null", loc[p].a)}
    /\ loc' = Finish(p)
    /\ pc' = [pc EXCEPT ![p] = "idle"]
    /\ UNCHANGED <<cfg, serial, patient, clock, appt, ride, msgs, timers, offerOk, opsLeft, seen, risk, ai, hist, reported>>

\* a booked ride that is cancelled or fast-forwarded and looked at afterwards
NextProvider ==
    \/ \E p \in Procs, a \in Appts : StartGetRide(p, a)
    \/ \E p \in Procs : GetRideProvider(p)
    \/ \E p \in Procs, a \in Appts : StartCancel(p, a)
    \/ \E p \in Procs : CancelProvider(p)
    \/ \E p \in Procs : CancelUpdate(p)
    \/ \E p \in Procs, a \in Appts, t \in Targets : StartFastForward(p, a, t)
    \/ \E p \in Procs : FastForwardForce(p)
    \/ \E p \in Procs : FastForwardRide(p)
    \/ \E p \in Procs : FastForwardAppointment(p)
    \/ Tick

SpecProvider == InitSeq /\ [][NextProvider]_vars

---------------------------------------------------------------------------
(* Properties *)

\* p takes a step: only a slot's own handler changes its position and locals
Steps(p) == pc'[p] # pc[p] \/ loc'[p] # loc[p]

\* p's handler ends with this step
Completes(p) == pc[p] # "idle" /\ pc'[p] = "idle"

Outbound(a) == {i \in 1..Len(msgs) : msgs[i].a = a /\ msgs[i].dir = "OUTBOUND"}

OfferMessages(a) == {i \in Outbound(a) : msgs[i].kind \in OfferKinds}

NoContact(a) == a \in Existing /\ TargetPhone(a) = NoPhone

\* C1: as long as the transport has accepted every offer handed to it, an
\* appointment has at most one outbound offer message, however often the
\* offer is requested in sequence (manual endpoint, sweep, or both).
C1_OneOfferInSequence ==
    \A a \in Appts :
        (\A i \in OfferMessages(a) : msgs[i].status # "FAILED")
            => Cardinality(OfferMessages(a)) <= 1

ProviderBookings(a) == {i \in 1..Len(mock) : mock[i].a = a}

\* C2: under any interleaving of CONFIRM webhooks, the book endpoint and the
\* demo auto-book timer, the provider holds at most one booking per appointment
\* (the Ride table holds at most one row per appointment by construction).
C2_OneBookingPerAppointment ==
    \A a \in Appts : Cardinality(ProviderBookings(a)) <= 1

\* C3: when offer sweeps overlap each other or a manual offer, the sweep never
\* gets a second offer delivered for an appointment that already has a
\* delivered offer.
C3_SweepSendsNoSecondOffer ==
    \A a \in Appts : \A i, j \in OfferMessages(a) :
        ~ /\ i < j
          /\ msgs[j].by = "send_offers"
          /\ msgs[i].status = "DELIVERED"
          /\ msgs[j].status = "DELIVERED"

WebhookCompletes(p) == loc[p].op = "webhook" /\ Completes(p)

Booked(a) == ride[a].status = "SCHEDULED" /\ appt[a].status = "CONFIRMED"

PendingOffers(p) ==
    IF loc[p].op = "send_offers" THEN {loc[p].todo[i] : i \in 1..Len(loc[p].todo)} ELSE {}

\* C5: for an appointment whose patient has no phone and no caseworker, the
\* manual offer replies NO_PHONE and the sweep logs the missing number for it;
\* no outbound message is ever created for it, no offer handler enters its
\* send, and rideOfferSent stays false.
C5_NoContactNoOffer ==
    /\ [](\A a \in Appts : NoContact(a) =>
            /\ appt[a].rideOfferSent = FALSE
            /\ Outbound(a) = {}
            /\ \A p \in Procs : ~(loc[p].op \in {"offer_ride", "send_offers"} /\ loc[p].a = a)
            /\ Call("offer_ride", a) \in out => Reply("NO_PHONE", a) \in out)
    /\ [][\A a \in Appts : NoContact(a) =>
            /\ (OfferCandidate(a) /\ Call("send_offers", "all") \in out')
                  => \/ Log("NO_PHONE", a) \in out'
                     \/ \E p \in Procs : pc[p] = "idle" /\ a \in PendingOffers(p)'
            /\ \A p \in Procs :
                 (a \in PendingOffers(p) /\ a \notin PendingOffers(p)')
                  => Log("NO_PHONE", a) \in out']_vars

C5_Witness ==
    \E a \in Appts :
        /\ NoContact(a)
        /\ Log("NO_PHONE", a) \in out
        /\ Outbound(a) = {}
        /\ appt[a].rideOfferSent = FALSE

\* C6: rideOfferSent is true only for an appointment for which an offer send
\* has returned success; the step after a rejected send leaves the flag as it
\* was and emits no RIDE_OFFER_SENT.
C6_FlagOnlyAfterSuccess ==
    /\ [](\A a \in Appts : appt[a].rideOfferSent => a \in offerOk)
    /\ [][\A p \in Procs :
            (pc[p] \in {"or_flag", "so_flag"} /\ ~loc[p].ok /\ Steps(p)) =>
                /\ appt'[loc[p].a].rideOfferSent = appt[loc[p].a].rideOfferSent
                /\ Event("RIDE_OFFER_SENT", loc[p].a) \notin out']_vars

C6_Witness ==
    \E a \in Existing :
        /\ Reply("SMS_FAILED", a) \in out
        /\ \E i \in OfferMessages(a) : msgs[i].status = "FAILED"
        /\ appt[a].rideOfferSent = FALSE

InSend(p) == pc[p] \in {"sms_test", "sms_call", "sms_store"}

Returned(p) == pc[p] = loc[p].ret /\ loc[p].msg # 0

\* C7: while a send is at or past the transport call its outbound record
\* already exists; when the transport rejected the message, the send returns
\* success = false to its caller with the record FAILED.
C7_RecordBeforeTransport ==
    \A p \in Procs :
            /\ (InSend(p) \/ Returned(p)) =>
                  /\ loc[p].msg \in 1..Len(msgs)
                  /\ msgs[loc[p].msg].dir = "OUTBOUND"
                  /\ msgs[loc[p].msg].a = loc[p].a
                  /\ msgs[loc[p].msg].phone = loc[p].phone
                  /\ msgs[loc[p].msg].kind = loc[p].mkind
            /\ (Returned(p) /\ ~loc[p].ok) => msgs[loc[p].msg].status = "FAILED"
            /\ (Returned(p) /\ loc[p].ok) => msgs[loc[p].msg].status = "DELIVERED"

C7_Witness ==
    \E p \in Procs :
        /\ Returned(p)
        /\ ~loc[p].ok
        /\ msgs[loc[p].msg].status = "FAILED"

\* C8: a cancel request for a ride whose row is COMPLETED or IN_PROGRESS ends
\* rejected: the step that ends the handler leaves the row's status as it is,
\* emits no RIDE_STATUS_UPDATE and replies CANCEL_FAILED.
C8_CancelRejectedWhenStarted ==
    [][\A p \in Procs :
          (loc[p].op = "cancel" /\ loc[p].saw \in {"COMPLETED", "IN_PROGRESS"} /\ Completes(p)) =>
              /\ ride'[loc[p].a].status = ride[loc[p].a].status
              /\ Event("RIDE_STATUS_UPDATE", loc[p].a) \notin out'
              /\ Reply("CANCEL_FAILED", loc[p].a) \in out']_vars

\* C9: once a ride's row is COMPLETED or CANCELLED, no step changes its status.
C9_TerminalRideStatusKept ==
    [][\A a \in Appts :
          ride[a].status \in {"COMPLETED", "CANCELLED"} => ride'[a].status = ride[a].status]_vars

Rank(st) ==
    CASE st = "NONE" -> 0
      [] st = "SCHEDULED" -> 1
      [] st = "DRIVER_ASSIGNED" -> 2
      [] st = "IN_PROGRESS" -> 3
      [] OTHER -> 4

Forward(old, new) ==
    \/ new = "CANCELLED" /\ old \notin {"COMPLETED", "CANCELLED"}
    \/ new # "CANCELLED" /\ old # "CANCELLED" /\ Rank(old) < Rank(new)

\* C10: every change of a ride's status moves it forward along
\* SCHEDULED, DRIVER_ASSIGNED, IN_PROGRESS, COMPLETED, or to CANCELLED from a
\* status that is not terminal; this includes the writes of the status sweep.
C10_RideStatusMovesForward ==
    [][\A a \in Appts :
          ride'[a].status # ride[a].status => Forward(ride[a].status, ride'[a].status)]_vars

\* the sweep's write for a ride whose provider status is the one the run
\* before it read, no other request having been issued in between
RepeatedRead(p) ==
    /\ pc[p] = "ur_update"
    /\ Steps(p)
    /\ seen[loc[p].a].status = loc[p].arg
    /\ seen[loc[p].a].ops = opsLeft + 1

\* C11: when the status sweep runs twice in a row and the provider returns
\* the same status for a ride on both runs, the second run's write for that
\* ride emits no RIDE_STATUS_UPDATE and sends no driver-arriving notice.
C11_SecondRunSilent ==
    [][\A p \in Procs : RepeatedRead(p) =>
          /\ Event("RIDE_STATUS_UPDATE", loc[p].a) \notin out'
          /\ pc'[p] # "sms_create"
          /\ ride'[loc[p].a].status = ride[loc[p].a].status]_vars

Arriving(a) == {i \in Outbound(a) : msgs[i].kind = "arriving"}

C11_Witness ==
    \E a \in Existing :
        /\ seen[a].again
        /\ seen[a].status = "arrived"
        /\ Cardinality(Arriving(a)) = 1
        /\ Quiet

\* C12: when a run of the status sweep reads 'arrived' for a ride for which
\* the run before read scheduled, driver_assigned or en_route, it sends a
\* driver-arriving notice to the patient's number (or the first caseworker's).
C12_ArrivalNoticeOnArrived ==
    [][\A p \in Procs :
          (/\ pc[p] = "ur_update"
           /\ Steps(p)
           /\ loc[p].arg = "arrived"
           /\ seen[loc[p].a].status \in {"scheduled", "driver_assigned", "en_route"}
           /\ TargetPhone(loc[p].a) # NoPhone)
          => /\ pc'[p] = "sms_create"
             /\ loc'[p].mkind = "arriving"
             /\ loc'[p].phone = TargetPhone(loc[p].a)]_vars


\* C13: in every reachable state an appointment whose status is CONFIRMED has
\* a Ride row (the row is created before the status is set to CONFIRMED).
C13_ConfirmedHasRide ==
    \A a \in Appts : appt[a].status = "CONFIRMED" => ride[a] # NoRide


\* C14: calculateRiskScore returns min(100, housing + distance + phone +
\* noShow) with housing 40 / 25 / 0, distance 20 (unknown) / 30 (over 5 miles)
\* / 20 (2 to 5) / 10 (under 2), phone 25 when absent, noShow min(60, 15 per
\* no-show in the window); the result depends on these inputs only, and a
\* homeless patient over 5 miles away with no phone and at least 4 no-shows
\* scores 100, HIGH.
C14_RiskScoreFormula ==
    risk.op = "calculateRiskScore" =>
        LET housing == CASE risk.housingStatus = "HOMELESS" -> 40
                         [] risk.housingStatus = "UNSTABLY_HOUSED" -> 25
                         [] risk.housingStatus = "HOUSED" -> 0
            d == risk.distanceFromClinic
            distance == CASE d = NoDistance -> 20
                          [] d # NoDistance /\ d > 50 -> 30
                          [] d >= 20 /\ d <= 50 -> 20
                          [] d # NoDistance /\ d < 20 -> 10
            phone == IF risk.phoneNumber = NoPhone THEN 25 ELSE 0
            noShow == Min({60, 15 * risk.history.recent})
        IN /\ risk.result.score = Min({100, housing + distance + phone + noShow})
           /\ (/\ risk.housingStatus = "HOMELESS"
               /\ d > 50
               /\ risk.phoneNumber = NoPhone
               /\ risk.history.recent >= 4)
              => risk.result = [score |-> 100, category |-> "HIGH"]

C14_Witness ==
    /\ risk.op = "calculateRiskScore"
    /\ risk.housingStatus = "HOMELESS"
    /\ risk.distanceFromClinic > 50
    /\ risk.phoneNumber = NoPhone
    /\ risk.history.recent = MaxNoShows
    /\ risk.result.score = 100

\* the label the dashboard shows for a category
Label(category) ==
    CASE category = "LOW" -> "Low" [] category = "MEDIUM" -> "Medium" [] category = "HIGH" -> "High"

\* C15: the category is LOW up to 30, MEDIUM from 31 to 60 and HIGH from 61,
\* and for every score 0..100 the base engine, the blending layer, the
\* riskScore >= 61 threshold, the risk filter and the dashboard helper all
\* give that category.
C15_CategoriesAgree ==
    risk.op = "category" =>
        LET s == risk.score
            category == IF s <= 30 THEN "LOW" ELSE IF s >= 31 /\ s <= 60 THEN "MEDIUM" ELSE "HIGH"
        IN /\ risk.engine = category
           /\ risk.blended = category
           /\ risk.threshold <=> (category = "HIGH")
           /\ risk.filter = {IF category = "LOW" THEN "low"
                             ELSE IF category = "MEDIUM" THEN "medium" ELSE "high"}
           /\ risk.dashboard = Label(category)

C15_Witness ==
    /\ risk.op = "category"
    /\ risk.score = 61
    /\ risk.engine = "HIGH"
    /\ risk.dashboard = "High"
    /\ risk.threshold

\* C16: combineScores takes the adjusted score at confidence 80 and above,
\* the rounded mean of base and adjusted (halves up) from 50 to 79, and the
\* base score below 50; the returned category is the category of the final
\* score and the returned score is the base score.
C16_BlendByConfidence ==
    risk.op = "combineScores" =>
        LET b == risk.base
            adj == risk.adjustedScore
            c == risk.confidence
            final == risk.result.finalScore
        IN /\ c >= 80 => final = adj
           /\ (c >= 50 /\ c < 80) => (2 * final - (b + adj)) \in {0, 1}
           /\ c < 50 => final = b
           /\ (b = 50 /\ adj = 70 /\ c = 85) => final = 70
           /\ (b = 50 /\ adj = 70 /\ c = 60) => final = 60
           /\ (b = 50 /\ adj = 70 /\ c = 30) => final = 50
           /\ risk.result.category =
                 (IF final <= 30 THEN "LOW" ELSE IF final <= 60 THEN "MEDIUM" ELSE "HIGH")
           /\ risk.result.score = b

C16_Witness ==
    /\ risk.op = "combineScores"
    /\ risk.base = 50
    /\ risk.adjustedScore = 71
    /\ risk.confidence = 60
    /\ risk.result.finalScore = 61
    /\ risk.result.category = "HIGH"
    /\ risk.result.score = 50

\* the assessment returns at this step
AIReturns == ai.pc # "idle" /\ ai'.pc = "idle"

\* inference is switched off or has no client, or this step's provider call failed
InferenceFailed ==
    \/ ai.pc = "ai_cache" /\ (~ai.enabled \/ ~ai.configured)
    \/ ai.pc = "ai_infer" /\ Log("AI_ERROR", ai.run.a) \in out'

\* C17: when inference is disabled or unconfigured, or the provider call
\* raises or returns output that cannot be parsed, calculateAIEnhancedRiskScore
\* returns the base result with finalScore = base score, isAIEnhanced = false
\* and aiAvailable = false, and has written no cache entry and no AI field.
C17_FallbackOnInferenceFailure ==
    [][(ai.pc # "idle" /\ InferenceFailed) =>
          /\ AIReturns
          /\ ai'.run.ret.score = ai.run.base.score
          /\ ai'.run.ret.category = ai.run.base.category
          /\ ai'.run.ret.finalScore = ai.run.base.score
          /\ ~ai'.run.ret.isAIEnhanced
          /\ ~ai'.run.ret.aiAvailable
          /\ ai'.cache = ai.run.cache0
          /\ ai'.fields = ai.run.fields0]_vars

C17_Witness ==
    /\ ai.pc = "idle"
    /\ ai.enabled /\ ai.configured
    /\ ai.run.ret.score >= 0
    /\ ~ai.run.ret.isAIEnhanced
    /\ ai.run.ret.finalScore = ai.run.ret.score
    /\ ai.cache[ai.run.a] = NoEntry
    /\ ai.fields[ai.run.a] = NoFields

\* the blending of a base score with an assessment
Blend(b, adj, c) == IF c >= 80 THEN adj ELSE IF c >= 50 THEN (b + adj + 1) \div 2 ELSE b

\* C18: a call for an appointment the provider has assessed, with the service
\* on and no invalidation since: within 24 hours of the assessment it returns
\* without a provider call, blending the current base score with the assessed
\* score and confidence; after 24 hours it goes on to the provider.
C18_CacheFor24Hours ==
    [][(/\ ai.pc = "ai_cache"
        /\ ai'.pc # "ai_cache"
        /\ ai.enabled /\ ai.configured
        /\ ai.assessed[ai.run.a] # NotAssessed) =>
          LET was == ai.assessed[ai.run.a]
          IN IF Now - was.at <= 1440
             THEN /\ AIReturns
                  /\ Call("messages.create", ai.run.a) \notin out'
                  /\ ai'.run.ret.isAIEnhanced
                  /\ ai'.run.ret.finalScore = Blend(ai.run.base.score, was.aiScore, was.confidence)
             ELSE ai'.pc = "ai_infer"]_vars

\* a second call inside the 24 hours that was answered from the cache
C18_Witness ==
    /\ ai.pc = "idle"
    /\ ai.run.ret.isAIEnhanced
    /\ ai.run.cache0[ai.run.a] # NoEntry
    /\ ai.run.cache0[ai.run.a] # Preassessed
    /\ ai.run.got = NoEntry
    /\ ai.run.ret.finalScore # ai.run.ret.score

\* C19: when the handler of an inbound message (the SMS webhook, or the
\* simulated reply) has recorded the message and finished, the appointment
\* has no cache entry.
C19_InboundInvalidatesCache ==
    [][/\ \A p \in Procs :
             (Completes(p) /\ loc[p].op = "webhook") => ai'.cache[loc[p].a] = NoEntry
       /\ \A a \in Appts, phone \in Senders :
             (TimerAt("reply", a, phone) \in timers /\ TimerAt("reply", a, phone) \notin timers')
                => ai'.cache[a] = NoEntry]_vars

\* C20: when the rule tier classifies a message with confidence 0.9 or more
\* ("yes" is CONFIRM_RIDE at 0.95), parsePatientResponse returns the rule
\* tier's result and makes no call to the provider, configured or not.
C20_RuleTierShortCircuit ==
    risk.op = "parsePatientResponse" =>
        /\ risk.tier1.confidence >= 90
              => /\ risk.returned.result = risk.tier1
                 /\ risk.returned.calls = 0
        /\ risk.message = "yes"
              => /\ risk.returned.result = [intent |-> "CONFIRM_RIDE", confidence |-> 95]
                 /\ risk.returned.calls = 0

C20_Witness ==
    /\ risk.op = "parsePatientResponse"
    /\ risk.message = "yes"
    /\ risk.apiAvailable
    /\ risk.reply.kind = "json"
    /\ risk.reply.intent = "DECLINE_RIDE"
    /\ risk.returned.result.intent = "CONFIRM_RIDE"
    /\ risk.returned.calls = 0

\* the rule classes a message matches, numbered in the order of the claim
MatchingClasses(message) ==
    LET w == Words(message)
    IN {i \in 1..6 : \/ i = 1 /\ MatchesConfirm(w)
                     \/ i = 2 /\ MatchesDecline(w)
                     \/ i = 3 /\ MatchesReschedule(w)
                     \/ i = 4 /\ MatchesQuestion(w, Mark(message))
                     \/ i = 5 /\ MatchesLocation(w)
                     \/ i = 6 /\ MatchesTime(w)}

ClassIntents == <<"CONFIRM_RIDE", "DECLINE_RIDE", "RESCHEDULE", "QUESTION",
                  "CONFIRM_RIDE", "CONFIRM_RIDE">>

\* C21: the rule tier gives a message the intent of the earliest rule class
\* it matches, in the order confirmation, decline, reschedule, question,
\* pickup location, time; a message that matches none is UNKNOWN at 0.3.
C21_EarliestClassWins ==
    risk.op = "parsePatientResponse" =>
        LET matching == MatchingClasses(risk.message)
        IN IF matching = {}
           THEN risk.tier1 = [intent |-> "UNKNOWN", confidence |-> 30]
           ELSE risk.tier1.intent = ClassIntents[Min(matching)]

\* a request to reschedule put as a question
C21_Witness ==
    /\ risk.op = "parsePatientResponse"
    /\ risk.message = "Can we reschedule?"
    /\ MatchingClasses(risk.message) = {3, 4}
    /\ risk.tier1.intent = "RESCHEDULE"

\* C22: "no my friend is taking me" resolves to DECLINE_RIDE with confidence
\* of 0.9 or more, with or without the provider.
C22_FriendIsTakingMeDeclines ==
    (risk.op = "parsePatientResponse" /\ risk.message = "no my friend is taking me") =>
        /\ risk.returned.result.intent = "DECLINE_RIDE"
        /\ risk.returned.result.confidence >= 90

\* C23: with a rule result below 0.9, whatever the provider does, the
\* returned intent is one of the five intents, and when the provider fails
\* or is not available the rule result is returned as it is.
C23_ResultIsAnIntent ==
    (risk.op = "parsePatientResponse" /\ risk.tier1.confidence < 90) =>
        /\ risk.returned.result.intent \in
              {"CONFIRM_RIDE", "DECLINE_RIDE", "RESCHEDULE", "QUESTION", "UNKNOWN"}
        /\ (~risk.apiAvailable \/ risk.reply.kind # "json") => risk.returned.result = risk.tier1


\* the appointments an end-of-day pass starting now is to mark
Due == {a \in Existing : Today(a) /\ appt[a].status \in {"SCHEDULED", "CONFIRMED"}}

\* a markNoShows pass starts with this step
NoShowPassStarts == Call("mark_no_shows", "all") \in out'

\* C24: an end-of-day pass marks exactly the appointments of today that are
\* SCHEDULED or CONFIRMED: when it ends each of them is NO_SHOW and has one
\* NoShowHistory row; no other appointment and no other row is touched by
\* the pass (COMPLETED, NO_SHOW, CANCELLED, or not today); and no appointment
\* ever gets a second row, however often the pass runs.
C24_NoShowPass ==
    [][\A p \in Procs :
        /\ (NoShowPassStarts /\ Steps(p)) => loc'[p].pre = Due
        /\ (NoShowPassStarts /\ (\A q \in Procs : pc'[q] = "idle")) => Due = {}
        /\ pc[p] \in {"mn_update", "mn_record"} =>
              \A a \in Appts \ loc[p].pre : appt'[a] = appt[a] /\ hist'[a] = hist[a]
        /\ (pc[p] = "mn_record" /\ Completes(p)) =>
              \A a \in loc[p].pre : appt'[a].status = "NO_SHOW" /\ hist'[a] = 1
        /\ \A a \in Appts : hist'[a] <= 1]_vars

\* the pass has run twice: the first marked both appointments, the second
\* found nothing to mark
C24_Witness ==
    /\ out = {Call("mark_no_shows", "all")}
    /\ \A q \in Procs : pc[q] = "idle"
    /\ opsLeft = MaxOps - 2
    /\ \A a \in Appts : appt[a].status = "NO_SHOW" /\ hist[a] = 1


\* the appointments an offer sweep starting now is to send an offer for
OfferDue ==
    {a \in Existing :
        /\ MinutesToAppointment >= 24 * 60
        /\ MinutesToAppointment <= 25 * 60
        /\ appt[a].status = "SCHEDULED"
        /\ appt[a].riskScore >= 61
        /\ appt[a].rideOfferSent = FALSE
        /\ (patient[a].phone # NoPhone \/ patient[a].caseworker # NoPhone)}

\* the appointments the sweep in slot p is working on or has still to come to
OfferQueue(p) == IF pc[p] = "idle" THEN {} ELSE {loc[p].a} \cup PendingOffers(p)

InOfferSweep(p) == pc[p] # "idle" /\ loc[p].op = "send_offers"

\* C26: an offer sweep sends an offer for exactly the appointments that are
\* 24 to 25 hours away, SCHEDULED, scored 61 or more, not yet offered and
\* have a contact: each of them is queued when the sweep starts and stays
\* queued until its message is created; the sweep creates a message, and
\* changes rideOfferSent, for no other appointment.
C26_OfferSweepSelection ==
    [][\A p \in Procs :
        /\ (Call("send_offers", "all") \in out' /\ pc[p] = "idle"
              /\ (Steps(p) \/ \A q \in Procs : pc'[q] = "idle"))
             => OfferDue \subseteq OfferQueue(p)'
        /\ (InOfferSweep(p) /\ pc[p] = "so_flag")
             => (OfferDue \cap PendingOffers(p)) \subseteq OfferQueue(p)'
        /\ (InOfferSweep(p) /\ pc[p] = "sms_create")
             => /\ loc[p].a \in OfferDue
                /\ Len(msgs') = Len(msgs) + 1
                /\ msgs'[Len(msgs')].a = loc[p].a
                /\ msgs'[Len(msgs')].kind \in OfferKinds
        /\ InOfferSweep(p)
             => \A a \in Appts :
                  /\ Outbound(a)' # Outbound(a) => a = loc[p].a
                  /\ appt'[a].rideOfferSent # appt[a].rideOfferSent
                        => a = loc[p].a /\ a \in OfferDue /\ pc[p] = "so_flag"]_vars

\* a sweep has ended: the booked appointment was passed over, the other one
\* has its offer and its flag
C26_Witness ==
    /\ \A q \in Procs : pc[q] = "idle"
    /\ Event("RIDE_OFFER_SENT", "a2") \in out
    /\ appt["a1"].status = "CONFIRMED" /\ ~appt["a1"].rideOfferSent
    /\ OfferMessages("a1") = {}
    /\ appt["a2"].rideOfferSent /\ appt["a2"].riskScore >= 61
    /\ \E i \in OfferMessages("a2") : msgs[i].by = "send_offers"


\* what the scoring engine and the adjustment layer make of the appointment
\* now: the engine's result when the layer is off or has no API key, the blend
\* with the cached assessment when it has one
Adjusted(a) ==
    LET base == CalculateRiskScore(HousingStatusOf(a), DistanceOf(a), patient[a].phone,
                                   HistoryOf(a))
        cached == CachedAssessment(a)
    IN IF ~ai.enabled \/ ~ai.configured THEN Fallback(base)
       ELSE CombineScores(base, cached.aiScore, cached.confidence)

\* the adjustment layer's answer needs no call of the provider
AdjustmentKnown(a) == ~ai.enabled \/ ~ai.configured \/ CachedAssessment(a) # NoEntry

\* C27: when a scoring sweep ends, every appointment it found (at most seven
\* days away, SCHEDULED or CONFIRMED) has the score of the scoring engine
\* persisted and needsRide true exactly when the category after the
\* adjustment layer is HIGH; the sweep writes no other appointment.
C27_ScoringSweepPersistsAdjusted ==
    [][\A p \in Procs :
        /\ (pc[p] = "rs_update" /\ Completes(p)) =>
              \A a \in loc[p].pre :
                  /\ appt'[a].riskScore = Adjusted(a).score
                  /\ AdjustmentKnown(a) => (appt'[a].needsRide <=> Adjusted(a).category = "HIGH")
        /\ pc[p] \in {"rs_calc", "rs_update"} =>
              \A a \in Appts \ loc[p].pre : appt'[a] = appt[a]]_vars

Reminders(a) == {i \in Outbound(a) : msgs[i].kind = "reminder"}

\* C28: a ride gets at most one reminder, however often the reminder sweep
\* runs while the pickup is two to two and a half hours away.
C28_OneReminderPerRide == \A a \in Appts : Cardinality(Reminders(a)) <= 1


Sweeps == {"risk_scores", "send_offers", "send_reminders", "update_statuses", "mark_no_shows"}

\* the items the run in slot p has not come to yet
Remaining(p) == {loc[p].todo[i] : i \in 1..Len(loc[p].todo)}

\* C25: a sweep run ends only when it has come to every item it found: what
\* is left in its queue when it ends are appointments the offer and the
\* reminder sweep pass over for having no number.  A write or a call that
\* throws on one item does not end the run.
C25_FailureDoesNotEndSweep ==
    [][\A p \in Procs :
        (Completes(p) /\ loc[p].op \in Sweeps) =>
            \A x \in Remaining(p) :
                loc[p].op \in {"send_offers", "send_reminders"} /\ TargetPhone(x) = NoPhone]_vars


\* C29: every sweep run and every handling of an inbound message ends,
\* whether or not the message transport ever answers.
C29_HandlersTerminate == \A p \in Procs : (pc[p] # "idle") ~> (pc[p] = "idle")


\* the inbound CONFIRM messages for the appointment
Confirms(a) == {i \in 1..Len(msgs) : msgs[i].dir = "INBOUND" /\ msgs[i].a = a /\ msgs[i].kind = "YES"}

\* a repeated CONFIRM for the appointment has been handled to its end: the
\* webhook has sent its answer to it
RetryHandled(a) ==
    \E i \in Confirms(a), j \in Confirms(a), k \in Outbound(a) :
        /\ i < j /\ j < k
        /\ msgs[k].by = "webhook"
        /\ msgs[k].kind \in {"booked", "already_booked"}

\* C30: once a repeated CONFIRM has been handled to its end, with or without
\* status sweeps before and after it, the appointment is CONFIRMED with one
\* Ride row and one booking at the provider, also when the handling of the
\* first CONFIRM was interrupted after the provider booking or after the
\* creation of the Ride row.
C30_RetryCompletesBooking ==
    \A a \in Appts :
        (Quiet /\ RetryHandled(a)) =>
            /\ appt[a].status = "CONFIRMED"
            /\ ride[a] # NoRide
            /\ Cardinality(ProviderBookings(a)) = 1


\* no outbound message was ever sent to the number
Unknown(from) == \A i \in 1..Len(msgs) : ~(msgs[i].dir = "OUTBOUND" /\ msgs[i].phone = from)

\* C31: an inbound message from a number no outbound message was sent to is
\* stored as an inbound message of no appointment, and that is all: no
\* appointment, ride or provider booking changes, no message goes out and
\* the handler is over with that step.
C31_UnknownSenderInert ==
    [][\A from \in Senders :
        (Call("webhook", from) \in out' /\ Unknown(from)) =>
            /\ Len(msgs') = Len(msgs) + 1
            /\ SubSeq(msgs', 1, Len(msgs)) = msgs
            /\ msgs'[Len(msgs')].dir = "INBOUND"
            /\ msgs'[Len(msgs')].phone = from
            /\ msgs'[Len(msgs')].a = "none"
            /\ msgs'[Len(msgs')].status = "RECEIVED"
            /\ appt' = appt /\ ride' = ride /\ mock' = mock /\ timers' = timers
            /\ pc' = pc /\ loc' = loc]_vars

\* the caseworker's number writes in while the only outbound message so far
\* went to the patient's own phone
C31_Witness ==
    /\ Call("webhook", "cw") \in out
    /\ Len(msgs) = 2
    /\ msgs[1].dir = "OUTBOUND" /\ msgs[1].phone = "p1"
    /\ msgs[2].dir = "INBOUND" /\ msgs[2].phone = "cw" /\ msgs[2].a = "none"
    /\ \A q \in Procs : pc[q] = "idle"


\* the handling of a YES for the appointment ends with this step of slot p,
\* and the appointment had its offer and no ride when the handling began
YesHandled(p, a, by) ==
    /\ Completes(p)
    /\ loc[p].op = by /\ loc[p].a = a
    /\ loc[p].saw = "NONE"
    /\ appt[a].rideOfferSent
    /\ \E i \in 1..Len(msgs') :
          /\ \A k \in (i + 1)..Len(msgs') : msgs'[k].dir = "OUTBOUND"
          /\ msgs'[i].dir = "INBOUND" /\ msgs'[i].kind = "YES" /\ msgs'[i].by = by

\* C32: a YES simulated for an appointment that has its offer and no ride
\* leaves the appointment with a Ride row in status SCHEDULED, as a YES that
\* comes in through the webhook does.
C32_SimulatedYesBooks ==
    [][\A p \in Procs, a \in Appts :
        (YesHandled(p, a, "simulate_reply") \/ YesHandled(p, a, "webhook"))
            => ride'[a].status = "SCHEDULED"]_vars

\* C33: whenever the provider reports a confidence from 0 to 49, 0 included,
\* the result of calculateAIEnhancedRiskScore has finalScore equal to the base
\* score.
C33_LowConfidenceKeepsBase ==
    (risk.op = "getAIAssessment" /\ risk.reply.confidence \in 0..49) =>
        risk.result.finalScore = risk.base

\* C34: for every provider output the sanitized assessment has adjustedScore
\* in 0..100, adjustment in -20..20 and confidence in 0..100, the adjusted
\* score is within 20 of the base score, and the final score is in 0..100 and
\* within 20 of the base score.
C34_AssessmentWithinRanges ==
    risk.op = "getAIAssessment" =>
        /\ risk.assessment.adjustedScore \in 0..100
        /\ risk.assessment.adjustment \in -20..20
        /\ risk.assessment.confidence \in 0..100
        /\ risk.assessment.adjustedScore - risk.base \in -20..20
        /\ risk.result.finalScore \in 0..100
        /\ risk.result.finalScore - risk.base \in -20..20

\* AppointmentStatus values after which the visit is over
TerminalAppointment == {"COMPLETED", "NO_SHOW", "CANCELLED"}

\* C35: an appointment whose status is COMPLETED, NO_SHOW or CANCELLED is
\* never set back to SCHEDULED or CONFIRMED and never gets a Ride row: no
\* inbound CONFIRM, manual booking or manual confirm changes either.
C35_TerminalAppointmentStays ==
    [][\A a \in Appts :
        appt[a].status \in TerminalAppointment =>
            /\ appt'[a].status \notin {"SCHEDULED", "CONFIRMED"}
            /\ ride[a] = NoRide => ride'[a] = NoRide]_vars

\* C36: no appointment ever has more than one NoShowHistory row, however
\* often and in whichever order the mark-noshow route and the end-of-day pass
\* mark it, so the count read by the scoring engine grows by one per missed
\* appointment.
C36_OneNoShowRecord == \A a \in Appts : hist[a] <= 1

\* C37: once the transport has reported a message failed or undelivered, its
\* row is FAILED whenever no request is in progress, whatever the order of
\* that callback, the other callbacks and sendSMS storing the SID.
C37_ReportedFailureRecorded ==
    (\A p \in Procs : pc[p] = "idle") =>
        \A sid \in reported : msgs[sid].status = "FAILED"

\* RideStatus values the status sweep no longer selects
TerminalRide == {"COMPLETED", "CANCELLED"}

\* C38: a status-sync run that ends more than 30 minutes after the pickup
\* time leaves every Ride row COMPLETED or CANCELLED, whichever path booked
\* the ride: no ride is still active after such a run.
C38_SweepFinishesRides ==
    [][\A p \in Procs :
        (loc[p].op = "update_statuses" /\ Completes(p)
            /\ MinutesUntilPickup <= -CompletedAfterMin)
        => \A a \in Appts : ride'[a] # NoRide => ride'[a].status \in TerminalRide]_vars

\* C39: in the provider's store 'completed' and 'cancelled' are final: a
\* getRideStatus call on a ride that is completed or cancelled returns that
\* status and leaves it in the store, whatever the time left until pickup.
C39_ProviderTerminalAbsorbing ==
    [][\A p \in Procs :
        (pc[p] = "gr_status" /\ InStore(loc[p].uber)
            /\ mock[loc[p].uber].status \in {"completed", "cancelled"})
        => /\ mock'[loc[p].uber].status = mock[loc[p].uber].status
           /\ out' = {Reply(mock[loc[p].uber].status, loc[p].a)}]_vars

\* the latest outbound message to the number belongs to the appointment
Attributed(a, from) ==
    \E i \in 1..Len(msgs) :
        /\ msgs[i].dir = "OUTBOUND" /\ msgs[i].phone = from /\ msgs[i].a = a
        /\ \A k \in (i + 1)..Len(msgs) : ~(msgs[k].dir = "OUTBOUND" /\ msgs[k].phone = from)

\* C40: an inbound message is stored under the appointment of the latest
\* outbound message to its sender's number; the webhook creates a ride only
\* for that appointment and for no other in the same handling; and a YES for
\* an offered appointment without a ride ends with a ride for it and none
\* for the other appointments offered on the same number.
C40_ReplyGoesToLatestOffer ==
    [][\A p \in Procs :
        /\ \A from \in Senders :
              (Call("webhook", from) \in out' /\ ~Unknown(from)) =>
                  Attributed(msgs'[Len(msgs')].a, from)
        /\ \A a \in Appts :
              (loc[p].op = "webhook" /\ ride[a] = NoRide /\ ride'[a] # NoRide) =>
                  /\ Attributed(a, loc[p].phone)
                  /\ \A b \in Appts \ {a} : ride'[b] = ride[b]
        /\ \A a \in Appts :
              YesHandled(p, a, "webhook") =>
                  /\ ride'[a] # NoRide
                  /\ \A b \in loc[p].pre \ {a} : ride'[b] = NoRide]_vars

\* offers for both appointments went to the caseworker's number; the YES that
\* followed booked the appointment offered last and left the other without a ride
C40_Witness ==
    \E a \in Appts, b \in Appts :
        /\ a # b
        /\ Len(msgs) = 4
        /\ msgs[1].kind \in OfferKinds /\ msgs[1].phone = "cw" /\ msgs[1].a = b
        /\ msgs[2].kind \in OfferKinds /\ msgs[2].phone = "cw" /\ msgs[2].a = a
        /\ msgs[3].dir = "INBOUND" /\ msgs[3].kind = "YES" /\ msgs[3].phone = "cw" /\ msgs[3].a = a
        /\ msgs[4].dir = "OUTBOUND" /\ msgs[4].a = a
        /\ ride[a] # NoRide /\ ride[a].status = "SCHEDULED"
        /\ ride[b] = NoRide
        /\ Reply("TWIML", a) \in out

====
